---- MODULE Spec2Model ----
(***************************************************************************)
(* A state-machine model of the seneca dispatcher (src/seneca.js):         *)
(* api_add, api_act/do_act, the action cache, execute_action,              *)
(* executable_action, act_done, act_error, act_make_delegate (prior) and   *)
(* the gate executor that runs the dispatch tasks.                         *)
(*                                                                         *)
(* A message is a set of <<key, value>> pairs (its data attributes); the   *)
(* control attributes (id$, timeout$, fatal$) travel beside it as fields   *)
(* of the dispatch record.  One JavaScript turn (a synchronous call chain  *)
(* that runs to completion) is one action of the model.                    *)
(***************************************************************************)
EXTENDS Integers, Sequences, FiniteSets, TLC

\* ------------------------------------------------------------- bounds

\* Number of do_act calls (acts, cache replays and priors together).
MaxDisp == 3
\* Number of act calls made by the user.
MaxAct == 2
\* Number of api_add calls made after construction.
MaxAdd == 3
\* The instance timeout so.timeout, scaled down to clock ticks.
Timeout == 2
\* Number of sub calls.
MaxSub == 2
\* Number of ready calls.
MaxReady == 2
\* Length of the short history$ lists given to act.
MaxHist == 2
\* Number of actions added by wrap calls.
MaxWrap == 2

\* ------------------------------------------------------------ options

\* so.actcache.active
ActcacheActive == TRUE
\* so.strict.result
StrictResult == TRUE
\* so.strict.add
StrictAdd == FALSE
\* so.strict.find
StrictFind == TRUE
\* so.internal.catchall
InternalCatchall == FALSE
\* so.strict.maxloop
MaxLoop == 11
\* so.legacy.error_codes
LegacyErrorCodes == TRUE

\* so.strict.fixedargs
StrictFixedargs == TRUE

\* ------------------------------------------------------------- inputs

\* Patterns given to add after construction.
AddPatterns ==
  { {<<"a", "1">>}, {<<"b", "1">>}, {<<"a", "1">>, <<"b", "1">>} }

\* Pins given to wrap.
WrapPins ==
  { {<<"a", "1">>}, {<<"b", "1">>}, {<<"a", "1">>, <<"b", "1">>},
    {<<"c", "1">>} }

\* Messages given to act.
Msgs ==
  { {<<"a", "1">>}, {<<"a", "1">>, <<"b", "1">>}, {<<"c", "1">>} }

\* id$ values given to act, as the parts between the '/' characters:
\* none, "X" and "X/T" (X and T are written 1).
RawIds == { <<>>, <<1>>, <<1, 1>> }

\* timeout$ values given to act; 0 stands for "no timeout$".
TimeoutVals == {0, 1}

\* Values of so.errhandler: not installed, or a function returning a
\* truthy or a falsy value.
ErrHandlers == {"none", "truthy", "falsy"}

\* What a handler does with its continuation.
HandlerKinds == {"reply", "hang", "prior"}

\* What a replying handler passes to its continuation.
Replies == {"ok", "err"}

\* What else a handler may give as its result: a number, an entity, an
\* object that is not plain and has force$.
OddReplies == {"num", "entity", "force"}

\* ------------------------------------------------------------- values

\* Errors: seneca is the mark of an error seneca made, code its code,
\* orig the message of the original error, ocode the code of the
\* original error and wraps how many times it was wrapped.
NoErr ==
  [seneca |-> FALSE, code |-> "null", orig |-> "", ocode |-> "", wraps |-> 0]

\* new Error(message)
PlainError(message) ==
  [seneca |-> FALSE, code |-> "", orig |-> message, ocode |-> "", wraps |-> 0]

\* An error of seneca-perm: its code begins with perm/.
PermError ==
  [seneca |-> FALSE, code |-> "perm/x", orig |-> "denied", ocode |-> "",
   wraps |-> 0]

\* internals.error(code, ...): an error made by seneca itself.
SenecaError(code) ==
  [seneca |-> TRUE, code |-> code, orig |-> "", ocode |-> "", wraps |-> 0]

\* internals.error(err, code, ...): err wrapped, kept as orig.
WrapError(err, code) ==
  [seneca |-> TRUE, code |-> code, orig |-> err.orig, ocode |-> err.code,
   wraps |-> err.wraps + 1]

\* err.orig of a wrapped error.
OrigOf(err) ==
  [seneca |-> FALSE, code |-> err.ocode, orig |-> err.orig, ocode |-> "",
   wraps |-> err.wraps - 1]

TimeoutError == PlainError("[TIMEOUT]")

NullRes == [kind |-> "null", v |-> 0]
ObjRes(v) == [kind |-> "obj", v |-> v]
\* A result that is no object: a number or a string.
NumRes == [kind |-> "num", v |-> 0]
\* An entity: an object that is not plain and has entity$.
EntityRes == [kind |-> "entity", v |-> 0]
\* An object that is not plain and has a truthy force$.
ForceRes == [kind |-> "force", v |-> 0]

\* The object {} and the object (or array) given as default$.
EmptyObj == ObjRes(0)
DefaultObj == ObjRes(-1)

Tuple(err, res) == [err |-> err, res |-> res]

\* The control attributes of a message that has none of history$,
\* default$, closing$ and gate$.
NoCtl ==
  [history |-> <<>>, dflt |-> "absent", closing |-> FALSE, gate |-> FALSE]

\* instance.idgen(): a fresh identifier for the n-th do_act call.
IdGen(n) == 100 + n

\* The reserved attributes used in patterns given to add.
ReservedKeys == {"sub$", "deprecate$"}

\* Patterns given to add as they are written: with reserved attributes,
\* and with no other attribute.
RawPatterns ==
  { {}, {<<"deprecate$", "old">>}, {<<"a", "1">>},
    {<<"b", "1">>, <<"sub$", "true">>} }

\* Kinds of default$ given to act: none, a plain object or array, a
\* truthy value that is neither (1, "x"), a falsy value (0, false, "").
Defaults == {"absent", "obj", "truthy", "falsy"}

\* ------------------------------------------------------------- state

VARIABLES
  acts,      \* every actmeta made by add, in order; the id is the index
  router,    \* private$.actrouter: pattern -> actmeta id
  errh,      \* so.errhandler
  disp,      \* one record per do_act call
  q,         \* the gate's work queue (dispatch indexes)
  actcache,  \* private$.actcache: key -> result tuple
  stats,     \* private$.stats.act
  immq,      \* callbacks handed to setImmediate, in order
  dead,      \* die has been called
  strict,    \* so.strict: the find and result options
  subrouter, \* private$.subrouter: pattern -> the subscribers under it
  subfuncs,  \* every function given to sub, in order: what it does
  listeners, \* event listeners: handle_sub on act-in and act-out, a
             \* once('ready') listener
  ready_list,\* private$.ready_list
  readies,   \* one record per ready call
  closed     \* the closed property, of the root and of a delegate

vars == <<acts, router, errh, disp, q, actcache, stats, immq, dead, strict,
          subrouter, subfuncs, listeners, ready_list, readies, closed>>

\* What add, sub and the options set up; a dispatch step reads it only.
confvars == <<acts, router, errh, strict, subrouter, subfuncs>>

\* ----------------------------------------------------------- registry

\* The patterns of the actions added during construction.
Builtins ==
  << {<<"role", "seneca">>, <<"cmd", "stats">>},
     {<<"role", "seneca">>, <<"cmd", "close">>},
     {<<"role", "seneca">>, <<"info", "fatal">>},
     {<<"role", "seneca">>, <<"get", "options">>},
     {<<"role", "seneca">>, <<"stats", "true">>},
     {<<"role", "options">>, <<"cmd", "get">>} >>

NBuiltins == Len(Builtins)

\* The message api_close gives to act (with closing$), and the builtin
\* action action_seneca_close that answers it.
CloseMsg == {<<"role", "seneca">>, <<"cmd", "close">>}
CloseAction == 2

\* The router's entries whose pattern matches msg.
Matching(r, msg) == { p \in DOMAIN r : p \subseteq msg }

\* actrouter.find(msg): the entry of the matching pattern with the most
\* keys, the most recently added one among equals; 0 when none matches.
RouterFind(r, msg) ==
  LET m == Matching(r, msg)
  IN  IF m = {} THEN 0
      ELSE LET best == CHOOSE p \in m : \A o \in m :
                         \/ Cardinality(o) < Cardinality(p)
                         \/ Cardinality(o) = Cardinality(p) /\ r[o] <= r[p]
           IN  r[best]

\* actrouter.add(pattern, data): an identical pattern is overwritten.
RouterAdd(r, pattern, id) ==
  [p \in DOMAIN r \cup {pattern} |-> IF p = pattern THEN id ELSE r[p]]

\* The prior of a new action (api_add): the action find gives for the
\* pattern, unless it is the catchall and internal.catchall is off, or
\* strict.add asks for the identical pattern.
PriorFor(reg, pattern) ==
  LET found == RouterFind(reg.router, pattern)
  IN  IF found = 0 THEN 0
      ELSE IF ~InternalCatchall /\ reg.acts[found].pattern = {} THEN 0
      ELSE IF StrictAdd /\ reg.acts[found].pattern # pattern THEN 0
      ELSE found

\* api_add that leaves the route of a pattern that is already registered.
ApiAddKeepRoute(reg, pattern) ==
  LET id == Len(reg.acts) + 1
      actmeta == [pattern |-> pattern, priormeta |-> PriorFor(reg, pattern)]
  IN  [acts |-> Append(reg.acts, actmeta),
       router |-> IF pattern \in DOMAIN reg.router THEN reg.router
                  ELSE RouterAdd(reg.router, pattern, id)]

\* api_add on the registry reg = [acts, router].
ApiAdd(reg, pattern) ==
  LET id == Len(reg.acts) + 1
      actmeta == [pattern |-> pattern, priormeta |-> PriorFor(reg, pattern)]
  IN  [acts |-> Append(reg.acts, actmeta),
       router |-> RouterAdd(reg.router, pattern, id)]

RECURSIVE AddAll(_, _)
AddAll(reg, patterns) ==
  IF patterns = <<>> THEN reg
  ELSE AddAll(ApiAdd(reg, Head(patterns)), Tail(patterns))

\* findpins(pin): the registered patterns that have every attribute of
\* the pin (private$.actrouter.list), here in the order they were last
\* added.
RECURSIVE PinList(_, _)
PinList(r, pins) ==
  IF pins = {} THEN <<>>
  ELSE LET first == CHOOSE p \in pins : \A o \in pins : r[p] <= r[o]
       IN  <<first>> \o PinList(r, pins \ {first})

findpins(r, pin) == PinList(r, { p \in DOMAIN r : pin \subseteq p })

\* A variant of api_wrap that adds the wrapper on the pin itself.
WrapPinOnly(reg, pin) == ApiAdd(reg, pin)

\* api_wrap: the wrapper is added on every pattern findpins gives for
\* the pin.
api_wrap(reg, pin) == AddAll(reg, findpins(reg.router, pin))

\* The registry after make_seneca has added the builtin actions.
InitRegistry == AddAll([acts |-> <<>>, router |-> <<>>], Builtins)

\* ----------------------------------------------------------- dispatch

\* The state a dispatch step reads and writes, as one record.
S ==
  [disp |-> disp, q |-> q, actcache |-> actcache, stats |-> stats,
   immq |-> immq, dead |-> dead, listeners |-> listeners,
   ready_list |-> ready_list, readies |-> readies, closed |-> closed]

\* A variant of the tx of do_act that does not look at tx$.
ActTxFresh(rawid, txin, n) ==
  IF Len(rawid) >= 2 THEN rawid[2] ELSE IdGen(n)

\* do_act: id_tx, tx and actid of the n-th call, for the id$ rawid and
\* the tx$ txin of the message (0: none).
ActTx(rawid, txin, n) ==
  IF Len(rawid) >= 2 THEN rawid[2]
  ELSE IF txin # 0 THEN txin
  ELSE IdGen(n)

ActId(rawid, txin, n) ==
  << IF Len(rawid) >= 1 THEN rawid[1] ELSE IdGen(n), ActTx(rawid, txin, n) >>

\* apply_actcache: the key looked up, callargs.id$ || callargs.actid$.
CacheLookupKey(rawid) == rawid

\* private$.actcache.set(actid, ...)
CacheSet(c, key, t) ==
  IF ActcacheActive
  THEN [k \in DOMAIN c \cup {key} |-> IF k = key THEN t ELSE c[k]]
  ELSE c

\* A task timeout without the instance timeout behind it.
TaskTimeoutNoFallback(tmo) == tmo

\* The timeout of a gate task: timeout$ when it is a number, else the
\* instance timeout.
TaskTimeout(tmo) == IF tmo # 0 THEN tmo ELSE Timeout

\* prior_ctxt of a call made by act.
EntryCtxt == [chain |-> <<>>, entry |-> TRUE, depth |-> 1]

\* A sub_prior_ctxt whose chain is the caller's, nothing pushed.
SubPriorCtxtSameChain(ctx, actmeta) ==
  [chain |-> ctx.chain, entry |-> FALSE, depth |-> ctx.depth + 1]

\* sub_prior_ctxt of a call made by this.prior of the action actmeta.
SubPriorCtxt(ctx, actmeta) ==
  [chain |-> Append(ctx.chain, actmeta), entry |-> FALSE,
   depth |-> ctx.depth + 1]

\* The first earlier call with the same id$ whose act_done has run.
SeenDone(ds, rawid) ==
  LET c == { e \in DOMAIN ds : ds[e].rawid = rawid /\ ds[e].adone # <<>> }
  IN  IF rawid = <<>> \/ c = {} THEN 0
      ELSE CHOOSE e \in c : \A o \in c : e <= o

\* The record of a new do_act call.
NewDisp(ds, msg, rawid, txin, tmo, fatal, given, parent, ctx) ==
  LET n == Len(ds) + 1
  IN  [msg |-> msg, rawid |-> rawid, actid |-> ActId(rawid, txin, n),
       tx |-> ActTx(rawid, txin, n), tmo |-> tmo, fatal |-> fatal,
       given |-> given, parent |-> parent,
       root |-> IF parent = 0 THEN n ELSE ds[parent].root, log |-> <<>>,
       ctx |-> ctx,
       actmeta |-> 0, nacts |-> 0,
       meta |-> [chain |-> <<>>, entry |-> FALSE, action |-> 0, tx |-> 0],
       statd |-> FALSE, gst |-> "queued", elapsed |-> 0, h |-> "none",
       hinv |-> 0, adone |-> <<>>, cbs |-> <<>>, subcalls |-> <<>>,
       fail |-> FALSE,
       timedout |-> FALSE, seen |-> SeenDone(ds, rawid), ctl |-> NoCtl,
       ans |-> "none", fixed |-> {}, caller |-> msg, hmsg |-> {},
       eh |-> 0, cb |-> "ok", cberrs |-> <<>>, ge |-> 0, pge |-> 0]

\* _.extend({}, a, b): the attributes of b, and those of a that b has
\* not.
Extend(a, b) == { kv \in a : \A o \in b : o[1] # kv[1] } \cup b

\* api_delegate: the fixedargs of self.delegate(fixedargs); with
\* strict.fixedargs those of self win, else the new ones.
DelegateFixed(strictfa, selffixed, fixedargs) ==
  IF strictfa THEN Extend(fixedargs, selffixed)
  ELSE Extend(selffixed, fixedargs)

\* The dispatch record of an act called on an instance whose fixedargs
\* are fixed: api_act extends the caller's message with them.
OnInstance(rec, fixed) ==
  [rec EXCEPT !.fixed = fixed, !.msg = Extend(@, fixed)]

\* The dispatch record of a message that carries the control attributes
\* ctl.
WithCtl(rec, ctl) == [rec EXCEPT !.ctl = ctl]

\* private$.subrouter.find(args): the subscribers under the matching
\* pattern with the most keys, the latest added pattern among equals;
\* none when no pattern matches.
SubFind(r, args) ==
  LET m == { p \in DOMAIN r : p \subseteq args }
  IN  IF m = {} THEN <<>>
      ELSE LET best == CHOOSE p \in m : \A o \in m :
                         \/ Cardinality(o) < Cardinality(p)
                         \/ /\ Cardinality(o) = Cardinality(p)
                            /\ r[o].ord <= r[p].ord
           IN  r[best].fns

\* private$.subrouter.add(pattern, subs = []) followed by subs.push, or
\* subs.push on the list find gave: the subscriber id joins the list
\* under the pattern key.
SubPush(r, key, id) ==
  IF key \in DOMAIN r
  THEN [r EXCEPT ![key].fns = Append(@, id)]
  ELSE [p \in DOMAIN r \cup {key} |->
          IF p = key THEN [ord |-> Cardinality(DOMAIN r) + 1, fns |-> <<id>>]
          ELSE r[p]]

\* The key of the list api_sub pushes on: the one subrouter.find(pattern)
\* gives for the new pattern taken as a message, else the new pattern.
SubKey(r, pattern) ==
  LET m == { p \in DOMAIN r : p \subseteq pattern }
  IN  IF m = {} THEN pattern
      ELSE CHOOSE p \in m : \A o \in m :
             \/ Cardinality(o) < Cardinality(p)
             \/ /\ Cardinality(o) = Cardinality(p)
                /\ r[o].ord <= r[p].ord

\* Subscribers that stop at the first one that throws.
RECURSIVE RunSubsUntilThrow(_, _, _)
RunSubsUntilThrow(calls, fns, phase) ==
  IF fns = <<>> THEN calls
  ELSE IF subfuncs[Head(fns)].does = "throw"
       THEN Append(calls, <<phase, Head(fns)>>)
       ELSE RunSubsUntilThrow(Append(calls, <<phase, Head(fns)>>),
                              Tail(fns), phase)

\* The subscribers run one after the other; one that throws is caught
\* and the next one runs.
RECURSIVE RunSubs(_, _, _)
RunSubs(calls, fns, phase) ==
  IF fns = <<>> THEN calls
  ELSE RunSubs(Append(calls, <<phase, Head(fns)>>), Tail(fns), phase)

\* private$.handle_sub, the listener of act-in (phase in$) and act-out
\* (phase out$): nothing unless meta$.entry is true; else the subscribers
\* the subrouter finds for the message are called.
handle_sub(s, d, phase) ==
  LET D == s.disp[d]
  IN  IF ~s.listeners.sub \/ ~D.meta.entry THEN s
      ELSE [s EXCEPT !.disp[d].subcalls =
              RunSubs(@, SubFind(subrouter, D.msg \cup {<<phase, "true">>}),
                      phase)]

\* An event (act-in, act-out, act-err) of call d is emitted, or its
\* continuation is called (cb).  The log of the call act was given (the
\* root of a chain of priors) records them in order.
Emit(s, d, type) ==
  LET s1 == [s EXCEPT !.disp[s.disp[d].root].log = Append(@, <<type, d>>)]
  IN  IF type = "act-in" THEN handle_sub(s1, d, "in$")
      ELSE IF type = "act-out" THEN handle_sub(s1, d, "out$")
      ELSE s1

\* A variant of apply_actcache that books the replayed call in the
\* calls counter.
ApplyActcacheCounted(s, d) ==
  LET key == CacheLookupKey(s.disp[d].rawid)
  IN  IF key # <<>> /\ ActcacheActive /\ key \in DOMAIN s.actcache
      THEN [s EXCEPT !.disp[d].gst = "cached",
                     !.stats.cache = @ + 1,
                     !.stats.calls = @ + 1,
                     !.immq = Append(@, [d |-> d, t |-> s.actcache[key],
                                         ready |-> 0])]
      ELSE s

\* apply_actcache: a hit counts in stats.act.cache and hands the cached
\* tuple to setImmediate; the call is then over.
ApplyActcache(s, d) ==
  LET key == CacheLookupKey(s.disp[d].rawid)
  IN  IF key # <<>> /\ ActcacheActive /\ key \in DOMAIN s.actcache
      THEN [s EXCEPT !.disp[d].gst = "cached",
                     !.stats.cache = @ + 1,
                     !.immq = Append(@, [d |-> d, t |-> s.actcache[key],
                                         ready |-> 0])]
      ELSE s

\* A variant of the gate selection in which every delegate holds the
\* root's gate.
GateSelectRoot(s, rec, d) ==
  [rec EXCEPT !.pge = 0, !.ge = IF rec.ctl.gate THEN d ELSE 0]

\* do_act, gate selection.  The instance act was called on is the root
\* (gate 0) or the delegate of the handler of call rec.parent, whose
\* private$ inherits the gate that call was added to.  With gate$ the
\* task goes to a fresh sub-gate of that gate, named by the call d, and
\* the sub-gate is set on a delegate's own private$; else to that gate.
GateSelect(s, rec, d) ==
  LET inst == IF rec.parent = 0 THEN 0 ELSE s.disp[rec.parent].ge
  IN  [rec EXCEPT !.pge = inst, !.ge = IF rec.ctl.gate THEN d ELSE inst]

\* A variant of do_act that puts the task in front of the tasks that
\* wait.
DoActFront(s, rec) ==
  LET d == Len(s.disp) + 1
      s1 == ApplyActcache([s EXCEPT
                             !.disp = Append(@, GateSelect(s, rec, d))], d)
  IN  IF s1.disp[d].gst = "cached" THEN s1
      ELSE [s1 EXCEPT !.q = <<d>> \o @]

\* do_act: the cache is asked first; a call it does not answer becomes a
\* task of the gate.
DoAct(s, rec) ==
  LET d == Len(s.disp) + 1
      s1 == ApplyActcache([s EXCEPT
                             !.disp = Append(@, GateSelect(s, rec, d))], d)
  IN  IF s1.disp[d].gst = "cached" THEN s1
      ELSE [s1 EXCEPT !.q = Append(@, d)]

\* The gate the task of call d was added to: the root's (0) or the
\* sub-gate named by the call that made it.
GateOf(ds, d) == ds[d].ge

\* root.private$.ge.isclear(): no task is queued or in flight.
IsClear(s) ==
  /\ s.q = <<>>
  /\ \A d \in DOMAIN s.disp : s.disp[d].gst # "inflight"

\* The do_act calls made so far and those the registered ready callbacks
\* and the ready listener will still make.
Committed(s) ==
  Len(s.disp)
    + Cardinality({ r \in DOMAIN s.readies :
                      s.readies[r].kind # "noop" /\ s.readies[r].calls = 0 })
    + (IF s.listeners.ready THEN 1 ELSE 0)

\* The message a ready callback or a ready listener gives to act.
ReadyMsg == {<<"a", "1">>}

\* do_close, the ready callback of api_close: seneca.closed = true on
\* the instance close was called on (the root, or a delegate made by
\* Object.create, whose own property it becomes), then the close message
\* is given to act with closing$.
do_close(s, onDelegate) ==
  LET s1 == IF onDelegate THEN [s EXCEPT !.closed.delegate = TRUE]
            ELSE [s EXCEPT !.closed.root = TRUE]
  IN  DoAct(s1, WithCtl(NewDisp(s1.disp, CloseMsg, <<>>, 0, 0, FALSE, 0, 0,
                                EntryCtxt),
                        [NoCtl EXCEPT !.closing = TRUE]))

\* The ready callback r is called; one of kind act gives a message to
\* act, one of kind close or dclose is the do_close of a close called on
\* the root or on a delegate.  The record keeps whether the gate was
\* clear at the call.
CallReady(s, r) ==
  LET s1 == [s EXCEPT !.readies[r].calls = @ + 1,
                      !.readies[r].busy = @ \/ ~IsClear(s)]
  IN  CASE s.readies[r].kind = "act" ->
             DoAct(s1, NewDisp(s1.disp, ReadyMsg, <<>>, 0, 0, FALSE, 0, 0,
                               EntryCtxt))
        [] s.readies[r].kind \in {"close", "dclose"} ->
             do_close(s1, s.readies[r].kind = "dclose")
        [] OTHER -> s1

\* action_queue_clear, the while loop: every callback left on the list is
\* called.
RECURSIVE DrainReady(_)
DrainReady(s) ==
  IF s.ready_list = <<>> THEN s
  ELSE DrainReady(CallReady([s EXCEPT !.ready_list = Tail(@)],
                            Head(s.ready_list)))

\* action_queue_clear, the gate's clear callback: the ready event is
\* emitted (a once listener gives a message to act), the first callback
\* of the list is called, and the others when the gate is clear then.
action_queue_clear(s) ==
  LET s1 == IF s.listeners.ready
            THEN LET t == [s EXCEPT !.listeners.ready = FALSE]
                 IN  DoAct(t, NewDisp(t.disp, ReadyMsg, <<>>, 0, 0, FALSE,
                                      0, 0, EntryCtxt))
            ELSE s
      s2 == IF s1.ready_list = <<>> THEN s1
            ELSE CallReady([s1 EXCEPT !.ready_list = Tail(@)],
                           Head(s1.ready_list))
  IN  IF IsClear(s2) THEN DrainReady(s2) ELSE s2

\* The gate's work_fn_callback: the task is done, once; when no task is
\* left the gate calls its clear callback.
GateDone(s, d) ==
  IF s.disp[d].gst = "done" THEN s
  ELSE LET s1 == [s EXCEPT !.disp[d].gst = "done"]
       IN  IF IsClear(s1) /\ ~s1.dead THEN action_queue_clear(s1) ELSE s1

\* A variant of the wrapping in act_error that wraps every error.
ErrOutRewrap(err) == WrapError(err, "act_execute")

\* act_error, the error it hands back: an error seneca did not make is
\* wrapped as act_execute and keeps the original as orig; a wrapped error
\* whose original has a code that begins with perm/ is replaced by its
\* original (legacy case for seneca-perm); any other error stays.
ErrOut(err) ==
  IF ~err.seneca THEN WrapError(err, "act_execute")
  ELSE IF err.ocode = "perm/x" THEN OrigOf(err)
  ELSE err

\* A variant of act_error that keeps the errors seneca made from the
\* errhandler.
act_error_plain_only(err, fatal) ==
  [err |-> ErrOut(err),
   eh |-> errh # "none" /\ ~fatal /\ ~err.seneca,
   call_cb |-> IF errh # "none" /\ ~fatal /\ ~err.seneca
               THEN errh # "truthy" ELSE TRUE]

\* act_error: the error is wrapped unless seneca made it; the errhandler,
\* when installed and the message has no fatal$, is called (eh) and
\* decides call_cb.
act_error(err, fatal) ==
  [err |-> ErrOut(err),
   eh |-> errh # "none" /\ ~fatal,
   call_cb |-> IF errh # "none" /\ ~fatal THEN errh # "truthy" ELSE TRUE]

\* A variant that lets no entity and no force$ object through.
ResultAllowedPlainOnly(res) == res.kind \in {"null", "obj"}

\* act_done: the results strict.result lets through: null, a plain
\* object or array, an entity, an object with force$.
ResultAllowed(res) == res.kind \in {"null", "obj", "entity", "force"}

\* act_done, "allow legacy patterns": cmd is generate_id, native or
\* quickcode, or note is true (written "true").
LegacyMsg(msg) ==
  \/ \E c \in {"generate_id", "native", "quickcode"} : <<"cmd", c>> \in msg
  \/ <<"note", "true">> \in msg

RECURSIVE act_done(_, _, _, _)
RECURSIVE InvokeCb(_, _, _)

\* callback_error: what the continuation threw is wrapped as
\* act_callback (result[0], which the cache entry shares), act-err is
\* emitted and an installed errhandler is called.
callback_error(s, d, t) ==
  LET D == s.disp[d]
      err == WrapError(PlainError("cbthrown"), "act_callback")
  IN  Emit([s EXCEPT !.disp[d].cberrs = Append(@, err),
                     !.disp[d].eh = IF errh # "none" THEN @ + 1 ELSE @,
                     !.actcache = CacheSet(@, D.actid, Tuple(err, t.res))],
           d, "act-err")

\* act_done: the continuation is called inside try; when it throws,
\* callback_error takes what it threw.
CallCb(s, d, result) ==
  IF s.disp[d].cb = "throw"
  THEN callback_error(InvokeCb(s, d, result), d, result)
  ELSE InvokeCb(s, d, result)

\* The continuation called first and act-out emitted after it.
CallThenEmitOut(s, d, result) == Emit(CallCb(s, d, result), d, "act-out")

\* act_done on success: act-out is emitted, then the continuation is
\* called.
EmitOutThenCall(s, d, result) == CallCb(Emit(s, d, "act-out"), d, result)

\* The function do_act hands to execute_action: act_done, then the
\* gate's done.
ActionDone(s, d, err, res) == GateDone(act_done(s, d, err, res), d)

\* actdone.apply(delegate, result): the caller's continuation.  The
\* continuation of a prior call is the calling handler's, which passes
\* (err, result) on to its own continuation; the continuation api_close
\* gave removes the act-in, act-out, act-err and ready listeners.
InvokeCb(s, d, t) ==
  LET s1 == Emit([s EXCEPT !.disp[d].cbs = Append(@, t)], d, "cb")
      p == s.disp[d].parent
  IN  IF p # 0 THEN ActionDone(s1, p, t.err, t.res)
      ELSE IF s.disp[d].ctl.closing
      THEN [s1 EXCEPT !.listeners.sub = FALSE, !.listeners.ready = FALSE]
      ELSE s1

act_done(s, d, err, res) ==
  LET D == s.disp[d]
      depth == D.ctx.depth - 1
      ctx == [D.ctx EXCEPT !.depth = depth, !.entry = (depth <= 0)]
      err1 == IF /\ err = NoErr
                 /\ ~ResultAllowed(res)
                 /\ strict.result
                 /\ ~LegacyMsg(D.msg)
              THEN SenecaError("result_not_objarr") ELSE err
  IN  IF err1 # NoErr
      THEN LET out == act_error(err1, D.fatal)
               \* result[0] is set by act_error when it wraps, and by
               \* act_done unless fatal$ made it return
               result == Tuple(IF D.fatal /\ out.err = err1 THEN err
                               ELSE out.err, res)
               s1 == Emit([s EXCEPT
                              !.disp[d].ctx = ctx,
                              !.disp[d].fail = TRUE,
                              !.disp[d].eh = IF out.eh THEN @ + 1 ELSE @,
                              !.disp[d].adone = Append(@, result),
                              !.actcache = CacheSet(@, D.actid, result),
                              !.stats.fails = @ + 1], d, "act-err")
           IN  IF D.fatal THEN [s1 EXCEPT !.dead = TRUE]
               ELSE IF out.call_cb THEN CallCb(s1, d, result)
               ELSE s1
      ELSE LET result == Tuple(NoErr, res)
               s1 == [s EXCEPT
                        !.disp[d].ctx = ctx,
                        !.disp[d].adone = Append(@, result),
                        !.actcache = CacheSet(@, D.actid, result),
                        !.stats.done = IF D.statd THEN @ + 1 ELSE @]
           IN  EmitOutThenCall(s1, d, result)

\* ------------------------------------------------------------ actions

\* so.strict and so.legacy.error_codes as the defaults give them.
DefaultStrict ==
  [find |-> StrictFind, result |-> StrictResult, maxloop |-> MaxLoop,
   fixedargs |-> StrictFixedargs, error_codes |-> LegacyErrorCodes]

\* The instance after construction and the add calls that made reg, with
\* an errhandler option among handlers and strict options among stricts.
InitState(reg, handlers, stricts) ==
  /\ acts = reg.acts
  /\ router = reg.router
  /\ errh \in handlers
  /\ strict \in stricts
  /\ disp = <<>>
  /\ q = <<>>
  /\ actcache = <<>>
  /\ stats = [calls |-> 0, done |-> 0, fails |-> 0, cache |-> 0]
  /\ immq = <<>>
  /\ dead = FALSE
  /\ subrouter = <<>>
  /\ subfuncs = <<>>
  /\ listeners = [handle_sub |-> FALSE, sub |-> FALSE, ready |-> FALSE]
  /\ ready_list = <<>>
  /\ readies = <<>>
  /\ closed = [root |-> FALSE, delegate |-> FALSE]

\* The same with the default strict options.
InitWith(reg, handlers) == InitState(reg, handlers, {DefaultStrict})

Set(s) ==
  /\ disp' = s.disp
  /\ q' = s.q
  /\ actcache' = s.actcache
  /\ stats' = s.stats
  /\ immq' = s.immq
  /\ dead' = s.dead
  /\ listeners' = s.listeners
  /\ ready_list' = s.ready_list
  /\ readies' = s.readies
  /\ closed' = s.closed

\* seneca.add(pattern, action)
Add(pattern) ==
  /\ ~dead
  /\ Len(acts) < NBuiltins + MaxAdd
  /\ LET reg == ApiAdd([acts |-> acts, router |-> router], pattern)
     IN  acts' = reg.acts /\ router' = reg.router
  /\ UNCHANGED <<errh, disp, q, actcache, stats, immq, dead, strict,
                 subrouter, subfuncs, listeners, ready_list, readies, closed>>

\* seneca.wrap(pin, wrapper)
Wrap(pin) ==
  /\ ~dead
  /\ LET reg == api_wrap([acts |-> acts, router |-> router], pin)
     IN  /\ Len(reg.acts) <= NBuiltins + MaxAdd + MaxWrap
         /\ acts' = reg.acts /\ router' = reg.router
  /\ UNCHANGED <<errh, disp, q, actcache, stats, immq, dead, strict,
                 subrouter, subfuncs, listeners, ready_list, readies, closed>>

\* self.util.clean(raw_pattern): the attributes whose name ends in $ are
\* left out.
Clean(raw) == { kv \in raw : kv[1] \notin ReservedKeys }

\* api_add, the test before add_empty_pattern: !_.keys(pattern).  _.keys
\* gives an array, and an array is truthy whatever its length.
NotKeys(pattern) == FALSE

\* seneca.add(raw_pattern, action) with a pattern that may have reserved
\* attributes: add_empty_pattern is thrown when the test says so, else
\* the cleaned pattern is registered.
AddRaw(raw) ==
  /\ ~NotKeys(Clean(raw))
  /\ Add(Clean(raw))

\* seneca.sub(pattern, action): in$ is the default phase; the first call
\* makes handle_sub and listens to act-in and act-out; the subscriber is
\* pushed on the list the subrouter has for the pattern.
Sub(pattern, phase, does) ==
  /\ ~dead
  /\ Len(subfuncs) < MaxSub
  /\ LET pat == pattern \cup {<<phase, "true">>}
         id == Len(subfuncs) + 1
     IN  /\ subfuncs' = Append(subfuncs, [pattern |-> pattern,
                                          phase |-> phase, does |-> does])
         /\ subrouter' = SubPush(subrouter, SubKey(subrouter, pat), id)
  /\ listeners' = IF listeners.handle_sub THEN listeners
                  ELSE [listeners EXCEPT !.handle_sub = TRUE, !.sub = TRUE]
  /\ UNCHANGED <<acts, router, errh, strict, disp, q, actcache, stats, immq,
                 dead, ready_list, readies, closed>>

\* seneca.act(msg, done) on the root instance.
ActWith(msg, rawid, tmo, fatal, ctl) ==
  /\ ~dead
  /\ Committed(S) < MaxDisp
  /\ Cardinality({d \in DOMAIN disp : disp[d].parent = 0}) < MaxAct
  /\ Set(DoAct(S, WithCtl(NewDisp(disp, msg, rawid, 0, tmo, fatal, 0, 0,
                                  EntryCtxt), ctl)))
  /\ UNCHANGED confvars

\* delegate.act(msg, cb) on a delegate of the root with the fixedargs
\* fixed.
ActOn(fixed, msg) ==
  /\ ~dead
  /\ Committed(S) < MaxDisp
  /\ Cardinality({d \in DOMAIN disp : disp[d].parent = 0}) < MaxAct
  /\ Set(DoAct(S, OnInstance(NewDisp(disp, msg, <<>>, 0, 0, FALSE, 0, 0,
                                       EntryCtxt), fixed)))
  /\ UNCHANGED confvars

\* act(msg, cb) with a continuation that returns (ok) or throws.
ActCb(msg, tmo, cb) ==
  /\ ~dead
  /\ Committed(S) < MaxDisp
  /\ Cardinality({d \in DOMAIN disp : disp[d].parent = 0}) < MaxAct
  /\ Set(DoAct(S, [NewDisp(disp, msg, <<>>, 0, tmo, FALSE, 0, 0, EntryCtxt)
                     EXCEPT !.cb = cb]))
  /\ UNCHANGED confvars

\* act(msg, cb) with a message that has no history$, default$ or
\* closing$.
Act(msg, rawid, tmo, fatal) == ActWith(msg, rawid, tmo, fatal, NoCtl)

\* delegate.prior(prior_args, prior_cb) called by the handler of call d
\* with its own message: id$ is deleted, tx$ is the caller's tx, and the
\* prior action is given to do_act.
Prior(s, d) ==
  LET D == s.disp[d]
      rec == WithCtl(NewDisp(s.disp, D.msg, <<>>, D.tx, D.tmo, D.fatal,
                             acts[D.actmeta].priormeta, d,
                             SubPriorCtxt(D.ctx, D.actmeta)),
                     [D.ctl EXCEPT !.gate = FALSE])
  IN  DoAct(s, [rec EXCEPT !.fixed = D.fixed])

\* What a handler that calls this.act does: a message without id$ (act),
\* one with gate$ (gate), one with an id$ without a tx part (actid), one
\* with an id$ that has a tx part (acttx).
SubKinds == {"act", "gate", "actid", "acttx"}

\* The message a handler gives to this.act.
SubMsg == {<<"a", "1">>}

\* The tx part of the id$ a handler gives to this.act.
OtherTx == 9

\* The id$ the handler of call d gives to this.act, as its parts.
SubRawId(kind, d) ==
  CASE kind = "actid" -> <<200 + d>>
    [] kind = "acttx" -> <<200 + d, OtherTx>>
    [] OTHER -> <<>>

\* The handler of call d calls this.act(msg, done) on its delegate:
\* api_act merges the delegate's fixedargs, tx$ among them, into the
\* message and calls do_act with the delegate as instance, no prior
\* context and no action given.  prior_args of this.prior lose gate$,
\* the message of this.act keeps it.
SubAct(s, d, kind) ==
  LET D == s.disp[d]
      rec == WithCtl(NewDisp(s.disp, SubMsg, SubRawId(kind, d), D.tx, 0, FALSE,
                             0, d, EntryCtxt),
                     [NoCtl EXCEPT !.gate = (kind = "gate")])
  IN  DoAct(s, OnInstance(rec, D.fixed))

\* do_act: args.default$ = args.default$ || (!so.strict.find ? {} :
\* args.default$).  A falsy default$, absent or not, becomes the empty
\* object when strict.find is off.
NormDefault(find, dflt) ==
  IF dflt \in {"absent", "falsy"} /\ ~find THEN "empty" ELSE dflt

\* The result delivered for a usable default$: the object given, or the
\* empty object made by do_act.
DefaultRes(dflt) == IF dflt = "empty" THEN EmptyObj ELSE DefaultObj

\* executable_action when no action was found: a default$ that is a
\* plain object or an array is the result; else the error is
\* act_default_bad when default$ is not undefined and act_not_found when
\* it is, and with fatal$ the instance dies, else the error goes to
\* action_done.
NotFound(s, d) ==
  LET D == s.disp[d]
      dflt == NormDefault(strict.find, D.ctl.dflt)
      errcode == IF dflt # "absent" THEN "act_default_bad"
                 ELSE "act_not_found"
  IN  IF dflt \in {"obj", "empty"}
      THEN ActionDone(s, d, NoErr, DefaultRes(dflt))
      ELSE IF D.fatal
      THEN [s EXCEPT !.disp[d].fail = TRUE, !.dead = TRUE]
      ELSE ActionDone(s, d, SenecaError(errcode), NullRes)

\* _.filter(history$, _.matches({action: id})).length
RepeatCount(history, id) ==
  Cardinality({ i \in DOMAIN history : history[i].action = id })

\* A variant of the loop test that also refuses a count equal to the
\* limit.
LoopAtLimit(maxloop, history, id) == maxloop <= RepeatCount(history, id)

\* executable_action, the loop test: history$ names the action more
\* often than so.strict.maxloop allows.
Loop(maxloop, history, id) == maxloop < RepeatCount(history, id)

\* A variant of validate_action_message that always uses the new code.
InvalidNewCode(legacy) == SenecaError("act_invalid_msg")

\* validate_action_message, when actmeta.validate rejects the message:
\* the error it hands to its callback, act_invalid_args with
\* legacy.error_codes and act_invalid_msg without.
validate_action_message(legacy) ==
  SenecaError(IF legacy THEN "act_invalid_args" ELSE "act_invalid_msg")

\* execute_action of call d, whose handler behaves as kind says: after
\* act-in, a closed root refuses a message without closing$; the builtin
\* close action calls done() at once; what a handler throws is caught by
\* execspec.fn and given to act_done.
ExecuteAction(s, d, kind) ==
  LET D == s.disp[d]
      actmeta == IF D.given # 0 THEN D.given ELSE RouterFind(router, D.msg)
  IN  IF actmeta = 0 THEN NotFound(s, d)
      ELSE IF Loop(strict.maxloop, D.ctl.history, actmeta)
      THEN ActionDone(s, d, SenecaError("act_loop"), NullRes)
      ELSE IF kind = "invalid"
      THEN ActionDone([s EXCEPT !.disp[d].actmeta = actmeta,
                                !.disp[d].h = "invalid"], d,
                      validate_action_message(strict.error_codes), NullRes)
      ELSE LET s0 == Emit([s EXCEPT
                        !.disp[d].actmeta = actmeta,
                        !.disp[d].statd = TRUE,
                        !.disp[d].meta = [chain |-> D.ctx.chain,
                                          entry |-> D.ctx.entry,
                                          action |-> actmeta,
                                          tx |-> D.tx],
                        !.disp[d].hmsg =
                           Extend(D.msg, DelegateFixed(strict.fixedargs,
                                                       D.fixed, {})),
                        !.stats.calls = @ + 1], d, "act-in")
               s1 == [s0 EXCEPT
                        !.disp[d].hinv = @ + 1,
                        !.disp[d].h = IF kind = "reply" THEN "pending"
                                      ELSE kind]
           IN  IF s0.closed.root /\ ~D.ctl.closing
               THEN ActionDone(s0, d, SenecaError("instance-closed"),
                               NullRes)
               ELSE IF actmeta = CloseAction
               THEN ActionDone([s1 EXCEPT !.disp[d].h = "replied"], d,
                               NoErr, NullRes)
               ELSE IF kind = "prior" THEN Prior(s1, d)
               ELSE IF kind \in SubKinds THEN SubAct(s1, d, kind)
               ELSE IF kind = "throw"
               THEN ActionDone(s1, d, PlainError("thrown"), NullRes)
               ELSE s1

\* A gate that starts a task only when every earlier task of that gate
\* has called done.
AdmitsSerial(i) ==
  /\ \A j \in 1..(i - 1) : GateOf(disp, q[j]) # GateOf(disp, q[i])
  /\ \A e \in DOMAIN disp :
       disp[e].gst = "inflight" => GateOf(disp, e) # GateOf(disp, q[i])

\* The gate admits the i-th waiting task: it is the first one that waits
\* on its gate.  Tasks in flight on that gate do not hold it back.
Admits(i) ==
  \A j \in 1..(i - 1) : GateOf(disp, q[j]) # GateOf(disp, q[i])

\* The queue without its i-th task.
Without(seq, i) == SubSeq(seq, 1, i - 1) \o SubSeq(seq, i + 1, Len(seq))

\* A gate's processor: the first task that waits on some gate starts.
Processor(kind) ==
  /\ ~dead
  /\ q # <<>>
  /\ \E i \in 1..Len(q) :
     LET d == q[i]
         actmeta == IF disp[d].given # 0 THEN disp[d].given
                    ELSE RouterFind(router, disp[d].msg)
     IN  /\ Admits(i)
         /\ kind = "prior" =>
              /\ actmeta # 0
              /\ acts[actmeta].priormeta # 0
              /\ Committed(S) < MaxDisp
         /\ kind = "invalid" => actmeta # 0
         /\ kind = "waits" =>
              /\ actmeta # 0
              /\ acts[actmeta].priormeta # 0
         /\ kind \in SubKinds =>
              /\ actmeta # 0
              /\ Committed(S) < MaxDisp
         /\ Set(ExecuteAction([S EXCEPT !.q = Without(@, i),
                                       !.disp[d].gst = "inflight",
                                       !.disp[d].nacts = Len(acts)],
                              d, kind))
  /\ UNCHANGED confvars

\* A handler that was called and has waited (kind waits) calls
\* this.prior now, with its own continuation as callback: the prior
\* context is cloned from the context of its dispatch as it is by now.
CallPrior(d) ==
  /\ ~dead
  /\ d \in DOMAIN disp
  /\ disp[d].h = "waits"
  /\ Committed(S) < MaxDisp
  /\ Set(Prior([S EXCEPT !.disp[d].h = "prior"], d))
  /\ UNCHANGED confvars

\* A handler calls its continuation, at any time after it was invoked.
Respond(d, reply) ==
  /\ ~dead
  /\ d \in DOMAIN disp
  /\ disp[d].h = "pending"
  /\ LET s == [S EXCEPT !.disp[d].h = "replied", !.disp[d].ans = reply]
     IN  Set(CASE reply = "ok" ->
                    ActionDone(s, d, NoErr, ObjRes(disp[d].actmeta))
               [] reply = "num" -> ActionDone(s, d, NoErr, NumRes)
               [] reply = "entity" -> ActionDone(s, d, NoErr, EntityRes)
               [] reply = "force" -> ActionDone(s, d, NoErr, ForceRes)
               [] reply = "perm" -> ActionDone(s, d, PermError, NullRes)
               [] OTHER -> ActionDone(s, d, PlainError("boom"), NullRes))
  /\ UNCHANGED confvars

\* The tasks the gate watches: started and not done.
Running == { d \in DOMAIN disp : disp[d].gst = "inflight" }

Expired(d) == disp[d].elapsed > TaskTimeout(disp[d].tmo)

\* Time passes for every running task.
Tick ==
  /\ ~dead
  /\ \E d \in Running : ~Expired(d)
  /\ disp' = [d \in DOMAIN disp |->
                IF d \in Running /\ ~Expired(d)
                THEN [disp[d] EXCEPT !.elapsed = @ + 1] ELSE disp[d]]
  /\ UNCHANGED <<confvars, q, actcache, stats, immq, dead, listeners,
                 ready_list, readies, closed>>

\* Time passes while the gate has no task it can start: the processor
\* runs as soon as a task is added, so a task it admits does not wait.
TickWaiting ==
  /\ \A i \in DOMAIN q : ~Admits(i)
  /\ Tick

\* The gate's timeout check: the first running task past its timeout
\* gets ontm, which is act_done with a [TIMEOUT] error, and is done.
TimeoutCheck ==
  /\ ~dead
  /\ \E d \in Running :
       /\ Expired(d)
       /\ \A e \in Running : Expired(e) => d <= e
       /\ Set(GateDone(act_done([S EXCEPT !.disp[d].timedout = TRUE],
                                d, TimeoutError, NullRes), d))
  /\ UNCHANGED confvars

\* seneca.ready(ready): the callback waits for its setImmediate.
Ready(kind) ==
  /\ ~dead
  /\ Len(readies) < MaxReady
  /\ kind # "noop" => Committed(S) < MaxDisp
  /\ readies' = Append(readies, [kind |-> kind, calls |-> 0, busy |-> FALSE,
                                 listed |-> FALSE])
  /\ immq' = Append(immq, [d |-> 0, t |-> Tuple(NoErr, NullRes),
                           ready |-> Len(readies) + 1])
  /\ UNCHANGED <<confvars, disp, q, actcache, stats, dead, listeners,
                 ready_list, closed>>

\* root.once('ready', listener), the listener giving a message to act.
OnceReady ==
  /\ ~dead
  /\ ~listeners.ready
  /\ Committed(S) < MaxDisp
  /\ listeners' = [listeners EXCEPT !.ready = TRUE]
  /\ UNCHANGED <<confvars, disp, q, actcache, stats, immq, dead, ready_list,
                 readies, closed>>

\* A variant of the setImmediate callback of api_ready that forgets the
\* callback when the gate is busy.
ReadyImmediateDropBusy(s, r) ==
  IF IsClear(s) THEN CallReady(s, r)
  ELSE [s EXCEPT !.readies[r].listed = TRUE]

\* The setImmediate callback of api_ready: the ready callback is called
\* when the gate is clear, else it joins the ready list.
ReadyImmediate(s, r) ==
  IF IsClear(s) THEN CallReady(s, r)
  ELSE [s EXCEPT !.ready_list = Append(@, r), !.readies[r].listed = TRUE]

\* The next setImmediate callback runs: the cached tuple goes to the
\* continuation (apply_actcache; nothing catches what it throws, and the
\* process ends), or a ready callback is looked at (api_ready).
Immediate ==
  /\ ~dead
  /\ immq # <<>>
  /\ LET s == [S EXCEPT !.immq = Tail(@)]
         i == Head(immq)
     IN  Set(IF i.ready # 0 THEN ReadyImmediate(s, i.ready)
             ELSE IF disp[i.d].cb = "throw"
             THEN [InvokeCb(s, i.d, i.t) EXCEPT !.dead = TRUE]
             ELSE InvokeCb(s, i.d, i.t))
  /\ UNCHANGED confvars

\* ----------------------------------------------------- specifications

PatA == {<<"a", "1">>}
MsgC == {<<"c", "1">>}

\* An instance on which add was called twice with the pattern a:1.
TwoOnA == AddAll(InitRegistry, <<PatA, PatA>>)

\* Dispatching on an instance with two actions on a:1, the second one
\* overriding the first.
Init == InitWith(TwoOnA, ErrHandlers)

Next ==
  \/ \E m \in {PatA, MsgC}, r \in RawIds, f \in BOOLEAN : Act(m, r, 0, f)
  \/ \E k \in HandlerKinds : Processor(k)
  \/ \E d \in 1..MaxDisp, r \in Replies : Respond(d, r)
  \/ Tick
  \/ TimeoutCheck
  \/ Immediate

Spec == Init /\ [][Next]_vars

\* Timeouts: acts with and without timeout$ and fatal$ whose handlers
\* never call their continuation.  The gate's timers keep running: time
\* passes and the timeout check is made as long as a task is running.
NextHang ==
  \/ \E t \in TimeoutVals, f \in BOOLEAN : Act(PatA, <<>>, t, f)
  \/ Processor("hang")
  \/ Tick
  \/ TimeoutCheck

SpecHang == Init /\ [][NextHang]_vars /\ WF_vars(Tick) /\ WF_vars(TimeoutCheck)

\* The router: actions are added while messages are dispatched; every
\* handler replies; no errhandler.
NextRouter ==
  \/ \E p \in AddPatterns : Add(p)
  \/ \E m \in Msgs : Act(m, <<>>, 0, FALSE)
  \/ Processor("reply")
  \/ \E d \in 1..MaxDisp, r \in Replies : Respond(d, r)

InitRouter == InitWith(InitRegistry, {"none"})

SpecRouter == InitRouter /\ [][NextRouter]_vars

\* An instance on which add was called MaxAdd times with the pattern
\* a:1: a chain of MaxAdd - 1 overrides.
OverridesOnA == AddAll(InitRegistry, [i \in 1..MaxAdd |-> PatA])

\* Priors: messages a:1 are dispatched on the chain of overrides; a
\* handler replies (at some time, or never) or calls this.prior and
\* passes what the prior gives to its own continuation.
NextPrior ==
  \/ Act(PatA, <<>>, 0, FALSE)
  \/ \E k \in {"reply", "prior"} : Processor(k)
  \/ \E d \in 1..MaxDisp, r \in Replies : Respond(d, r)
  \/ Tick
  \/ TimeoutCheck

InitPrior == InitWith(OverridesOnA, ErrHandlers)

SpecPrior == InitPrior /\ [][NextPrior]_vars

\* Subscribers: up to MaxSub subscribers on a:1 and on a:1,b:1 are
\* registered, then messages are dispatched to the two actions on a:1,
\* whose handlers reply or call this.prior.
PatAB == {<<"a", "1">>, <<"b", "1">>}

NextSub ==
  \/ /\ disp = <<>>
     /\ \E p \in {PatA, PatAB}, ph \in {"in$", "out$"},
           does \in {"ok", "throw"} : Sub(p, ph, does)
  \/ \E m \in {PatA, PatAB} : Act(m, <<>>, 0, FALSE)
  \/ \E k \in {"reply", "prior"} : Processor(k)
  \/ \E d \in 1..MaxDisp : Respond(d, "ok")

InitSub == InitWith(TwoOnA, {"none"})

SpecSub == InitSub /\ [][NextSub]_vars

\* Readiness: ready callbacks and a ready listener, some of which give a
\* message to act, while messages a:1 are dispatched to handlers that
\* reply.
NextReady ==
  \/ \E k \in {"noop", "act"} : Ready(k)
  \/ OnceReady
  \/ Act(PatA, <<>>, 0, FALSE)
  \/ Processor("reply")
  \/ \E d \in 1..MaxDisp : Respond(d, "ok")
  \/ Immediate

InitReady == InitWith(TwoOnA, {"none"})

\* A setImmediate callback is waiting: Immediate is enabled.
ImmediateDue == ~dead /\ immq # <<>>

\* A task is queued on the gate: Processor is enabled.
ProcessorDue == ~dead /\ q # <<>>

\* A handler has been invoked and has not replied: Respond is enabled.
RespondDue == ~dead /\ \E d \in DOMAIN disp : disp[d].h = "pending"

\* Some handler replies.
AnyRespond == \E d \in 1..MaxDisp : Respond(d, "ok")

\* The event loop keeps running: setImmediate callbacks run, queued tasks
\* start and every invoked handler replies in the end (weak fairness of
\* Immediate, of Processor and of AnyRespond, each with its enabling
\* condition written out).
SpecReady ==
  /\ InitReady /\ [][NextReady]_vars
  /\ ([]<>(~ImmediateDue) \/ []<><<Immediate>>_vars)
  /\ ([]<>(~ProcessorDue) \/ []<><<Processor("reply")>>_vars)
  /\ ([]<>(~RespondDue) \/ []<><<AnyRespond>>_vars)

\* Loop detection: messages carrying history$ lists that name the two
\* actions on a:1 zero to MaxLoop + 1 times, on instances whose
\* strict.maxloop is 1 or the default.
Rep(x, n) == [i \in 1..n |-> x]

LoopCounts == (0..MaxHist) \cup {MaxLoop, MaxLoop + 1}

LoopLimits == {1, MaxLoop}

Histories ==
  { Rep([action |-> NBuiltins + 2], n) \o Rep([action |-> NBuiltins + 1], k) :
      n \in LoopCounts, k \in {0, MaxLoop + 1} }

NextLoop ==
  \/ \E h \in Histories :
       ActWith(PatA, <<>>, 0, FALSE, [NoCtl EXCEPT !.history = h])
  \/ \E k \in {"reply", "prior"} : Processor(k)
  \/ \E d \in 1..MaxDisp : Respond(d, "ok")

InitLoop ==
  InitState(TwoOnA, {"none"},
            { [DefaultStrict EXCEPT !.maxloop = n] : n \in LoopLimits })

SpecLoop == InitLoop /\ [][NextLoop]_vars

\* Messages that match no pattern (c:1) or one (a:1), with every kind of
\* default$, on instances with strict.find on and off.
NextDefault ==
  \/ \E m \in {MsgC, PatA}, dflt \in Defaults :
       ActWith(m, <<>>, 0, FALSE, [NoCtl EXCEPT !.dflt = dflt])
  \/ Processor("reply")
  \/ \E d \in 1..MaxDisp : Respond(d, "ok")

InitDefault ==
  InitState(TwoOnA, {"none"},
            { [DefaultStrict EXCEPT !.find = f] : f \in BOOLEAN })

SpecDefault == InitDefault /\ [][NextDefault]_vars

\* Results of every kind given to messages with and without a legacy
\* cmd or note, with and without fatal$, on instances with strict.result
\* on and off and with every errhandler.
ResultMsgs ==
  { PatA, PatA \cup {<<"cmd", "native">>}, PatA \cup {<<"note", "true">>} }

NextResult ==
  \/ \E m \in ResultMsgs, fatal \in BOOLEAN : Act(m, <<>>, 0, fatal)
  \/ Processor("reply")
  \/ \E d \in 1..MaxDisp, r \in {"ok"} \cup OddReplies : Respond(d, r)

InitResult ==
  InitState(TwoOnA, ErrHandlers,
            { [DefaultStrict EXCEPT !.result = b] : b \in BOOLEAN })

SpecResult == InitResult /\ [][NextResult]_vars

\* Adding patterns as written, some of them empty once cleaned, while
\* messages are dispatched.
NextAddRaw ==
  \/ \E raw \in RawPatterns : AddRaw(raw)
  \/ \E m \in {PatA, MsgC} : Act(m, <<>>, 0, FALSE)
  \/ Processor("reply")
  \/ \E d \in 1..MaxDisp : Respond(d, "ok")

InitAddRaw == InitWith(InitRegistry, {"none"})

SpecAddRaw == InitAddRaw /\ [][NextAddRaw]_vars

\* Closing: close is called on the root or on a delegate while a:1
\* messages are dispatched; every handler replies.
NextClose ==
  \/ \E k \in {"close", "dclose"} : Ready(k)
  \/ Act(PatA, <<>>, 0, FALSE)
  \/ Processor("reply")
  \/ \E d \in 1..MaxDisp : Respond(d, "ok")
  \/ Immediate

InitClose == InitWith(TwoOnA, {"none"})

SpecClose == InitClose /\ [][NextClose]_vars

\* Fixed arguments: messages a:1 with and without b:1 are given to act
\* on the root and on a delegate that fixes b:2, with strict.fixedargs on
\* and off; handlers reply or call this.prior.
FixedArgs == { {}, {<<"b", "2">>} }

FixedMsgs == { {<<"a", "1">>}, {<<"a", "1">>, <<"b", "1">>} }

NextFixed ==
  \/ \E fixed \in FixedArgs, m \in FixedMsgs : ActOn(fixed, m)
  \/ \E k \in {"reply", "prior"} : Processor(k)
  \/ \E d \in 1..MaxDisp : Respond(d, "ok")

InitFixed ==
  InitState(TwoOnA, {"none"},
            { [DefaultStrict EXCEPT !.fixedargs = b] : b \in BOOLEAN })

SpecFixed == InitFixed /\ [][NextFixed]_vars

\* Wrapping: an instance with actions on a:1, b:1 and a:1,b:1; wrap is
\* called with pins while messages are dispatched; handlers reply or
\* call this.prior.
WrapBase ==
  AddAll(InitRegistry,
         << {<<"a", "1">>}, {<<"b", "1">>}, {<<"a", "1">>, <<"b", "1">>} >>)

NextWrap ==
  \/ \E pin \in WrapPins : Wrap(pin)
  \/ \E m \in Msgs : Act(m, <<>>, 0, FALSE)
  \/ \E k \in {"reply", "prior"} : Processor(k)
  \/ \E d \in 1..MaxDisp : Respond(d, "ok")

InitWrap == InitWith(WrapBase, {"none"})

SpecWrap == InitWrap /\ [][NextWrap]_vars

\* Failures: messages with and without fatal$, with and without an
\* action, whose handlers reply (a result, an error, a number), throw,
\* or never reply and time out, on instances with every errhandler.
NextFail ==
  \/ \E m \in {PatA, MsgC}, fatal \in BOOLEAN : Act(m, <<>>, 0, fatal)
  \/ \E k \in {"reply", "hang", "throw"} : Processor(k)
  \/ \E d \in 1..MaxDisp, r \in {"ok", "err", "num"} : Respond(d, r)
  \/ Tick
  \/ TimeoutCheck

InitFail == InitWith(TwoOnA, ErrHandlers)

SpecFail == InitFail /\ [][NextFail]_vars

\* Continuations that throw: messages with and without an action, whose
\* handlers reply at some time (a result or an error), call this.prior,
\* or never reply; tasks time out; every errhandler.
NextCb ==
  \/ \E m \in {PatA, MsgC}, cb \in {"ok", "throw"} : ActCb(m, 0, cb)
  \/ \E k \in {"reply", "prior"} : Processor(k)
  \/ \E d \in 1..MaxDisp, r \in Replies : Respond(d, r)
  \/ Tick
  \/ TimeoutCheck

InitCb == InitWith(TwoOnA, ErrHandlers)

SpecCb == InitCb /\ [][NextCb]_vars

\* Shutting down: close is called on the root or on a delegate, a ready
\* listener gives a message to act, and a:1 messages are dispatched to
\* handlers that reply.
NextShut ==
  \/ \E k \in {"close", "dclose"} : Ready(k)
  \/ OnceReady
  \/ Act(PatA, <<>>, 0, FALSE)
  \/ Processor("reply")
  \/ \E d \in 1..MaxDisp : Respond(d, "ok")
  \/ Immediate

InitShut == InitWith(TwoOnA, {"none"})

\* The event loop keeps running, as in SpecReady.
SpecShut ==
  /\ InitShut /\ [][NextShut]_vars
  /\ ([]<>(~ImmediateDue) \/ []<><<Immediate>>_vars)
  /\ ([]<>(~ProcessorDue) \/ []<><<Processor("reply")>>_vars)
  /\ ([]<>(~RespondDue) \/ []<><<AnyRespond>>_vars)

\* Nested dispatch: messages a:1 with and without gate$ are given to act
\* on the root; their handlers reply, call this.prior, or call this.act
\* on their delegate with and without gate$ and id$.
NextNest ==
  \/ \E g \in BOOLEAN :
       ActWith(PatA, <<>>, 0, FALSE, [NoCtl EXCEPT !.gate = g])
  \/ \E k \in {"reply", "prior"} \cup SubKinds : Processor(k)
  \/ \E d \in 1..MaxDisp : Respond(d, "ok")

InitNest == InitWith(TwoOnA, {"none"})

SpecNest == InitNest /\ [][NextNest]_vars

\* Errors passed up: messages a:1 are given to act; a handler replies
\* with a result, an error or a seneca-perm error, or calls this.prior or
\* this.act and hands what comes back to its own continuation.
NextErr ==
  \/ Act(PatA, <<>>, 0, FALSE)
  \/ \E k \in {"reply", "prior", "act"} : Processor(k)
  \/ \E d \in 1..MaxDisp, r \in {"ok", "err", "perm"} : Respond(d, r)

InitErr == InitWith(TwoOnA, {"none"})

SpecErr == InitErr /\ [][NextErr]_vars

\* The action cache: messages with and without an action are given to
\* act, with no id$ or with the id$ 1/1; handlers reply with a result
\* or an error; setImmediate callbacks run.
NextCache ==
  \/ \E m \in {PatA, MsgC}, r \in {<<>>, <<1, 1>>} : Act(m, r, 0, FALSE)
  \/ Processor("reply")
  \/ \E d \in 1..MaxDisp, r \in Replies : Respond(d, r)
  \/ Immediate

InitCache == InitWith(TwoOnA, {"none"})

SpecCache == InitCache /\ [][NextCache]_vars

\* Validation: messages a:1 are given to act on instances with
\* legacy.error_codes on and off; the validate function of the resolved
\* action rejects the message (invalid) or there is none and the handler
\* replies or calls this.prior.
NextValid ==
  \/ Act(PatA, <<>>, 0, FALSE)
  \/ \E k \in {"reply", "prior", "invalid"} : Processor(k)
  \/ \E d \in 1..MaxDisp : Respond(d, "ok")

InitValid ==
  InitState(TwoOnA, {"none"},
            { [DefaultStrict EXCEPT !.error_codes = b] : b \in BOOLEAN })

SpecValid == InitValid /\ [][NextValid]_vars

\* Late prior calls: messages a:1 are given to act; a handler replies,
\* calls this.prior at once, or waits and calls this.prior later, maybe
\* after its task has timed out.
NextLate ==
  \/ Act(PatA, <<>>, 0, FALSE)
  \/ \E k \in {"reply", "prior", "waits"} : Processor(k)
  \/ \E d \in 1..MaxDisp : CallPrior(d)
  \/ \E d \in 1..MaxDisp : Respond(d, "ok")
  \/ Tick
  \/ TimeoutCheck

InitLate == InitWith(TwoOnA, {"none"})

SpecLate == InitLate /\ [][NextLate]_vars

\* Nested calls on one gate: messages a:1 are given to act; a handler
\* replies, or calls this.prior or this.act and hands what comes back to
\* its own continuation; time passes while handlers are awaited and
\* tasks time out.
NextInner ==
  \/ Act(PatA, <<>>, 0, FALSE)
  \/ \E k \in {"reply", "prior", "act"} : Processor(k)
  \/ \E d \in 1..MaxDisp : Respond(d, "ok")
  \/ TickWaiting
  \/ TimeoutCheck

InitInner == InitWith(TwoOnA, {"none"})

SpecInner == InitInner /\ [][NextInner]_vars

\* -------------------------------------------------------------- claims

\* How many events of the given types call d has in its log.
EvCount(d, types) ==
  LET log == disp[disp[d].root].log
  IN  Cardinality({ i \in DOMAIN log : log[i][2] = d /\ log[i][1] \in types })

\* C1: once an act carrying id$ X has completed, a later act carrying the
\* same id$ is served from the cache: no handler runs for it, its
\* continuation gets the tuple of the first act, and every such act counts
\* once in stats.act.cache.
C1_CachedReplay ==
  /\ \A d \in DOMAIN disp :
       disp[d].seen # 0 =>
         /\ disp[d].gst = "cached"
         /\ disp[d].hinv = 0
         /\ \A i \in DOMAIN disp[d].cbs :
              disp[d].cbs[i] = disp[disp[d].seen].adone[1]
  /\ stats.cache = Cardinality({ d \in DOMAIN disp : disp[d].seen # 0 })

\* C2: the handler runs at most once per action id, however the
\* submissions and completions interleave.
C2_HandlerOncePerId ==
  \A d, e \in DOMAIN disp :
    (d # e /\ disp[d].actid = disp[e].actid) =>
      disp[d].hinv + disp[e].hinv <= 1

\* C4: when the handler of a call that was failed with TIMEOUT calls its
\* continuation, nothing observable changes: no continuation call, no
\* event, no change of the cache, no change of the counters.
C4_LateDoneNoEffect ==
  [][\A d \in DOMAIN disp :
       (disp[d].timedout /\ disp[d].h = "pending" /\ disp'[d].h = "replied")
       => /\ disp'[d].cbs = disp[d].cbs
          /\ disp'[disp[d].root].log = disp[disp[d].root].log
          /\ actcache' = actcache
          /\ stats' = stats]_vars

\* C5: a call that ends in failure has its continuation called exactly
\* once, when no errhandler returns truthy and the message has no fatal$.
C5_FailureDeliveredOnce ==
  \A d \in DOMAIN disp :
    (disp[d].fail /\ errh # "truthy" /\ ~disp[d].fatal) =>
      Len(disp[d].cbs) = 1

\* C6: act-err is emitted for every call that ends in failure.
C6_ActErrAlways ==
  \A d \in DOMAIN disp : disp[d].fail => EvCount(d, {"act-err"}) >= 1

\* C7: for a failed call without fatal$, a truthy errhandler keeps the
\* continuation from being called and a falsy one lets it be called
\* exactly once, with the error.
C7_ErrhandlerDecides ==
  \A d \in DOMAIN disp :
    (disp[d].fail /\ ~disp[d].fatal) =>
      /\ errh = "truthy" => disp[d].cbs = <<>>
      /\ errh = "falsy" =>
           /\ Len(disp[d].cbs) = 1
           /\ disp[d].cbs[1].err # NoErr

\* The timeout a call is due by the claim: its timeout$ when given, else
\* the instance timeout.
DueTimeout(d) == IF disp[d].tmo # 0 THEN disp[d].tmo ELSE Timeout

\* What every call whose handler never calls its continuation satisfies
\* when errhandler and fatal$ are left out of account: the continuation
\* is called at most once, only with the TIMEOUT error and only at the
\* first timeout check past the due timeout, and it has been called once
\* the task is timed out.
HangDelivery(d, always) ==
  /\ Len(disp[d].cbs) <= 1
  /\ \A i \in DOMAIN disp[d].cbs :
       /\ disp[d].cbs[i].err.orig = "[TIMEOUT]"
       /\ disp[d].timedout
  /\ disp[d].timedout => disp[d].elapsed = DueTimeout(d) + 1
  /\ ~disp[d].timedout => disp[d].elapsed <= DueTimeout(d) + 1
  /\ (disp[d].timedout /\ always) => Len(disp[d].cbs) = 1

\* C3 as stated: a handler that never calls its continuation has the
\* caller's continuation called exactly once, with a TIMEOUT error, when
\* the timeout$ or else the instance timeout has expired: never before,
\* and never left uncalled.
C3_AsStated ==
  \A d \in DOMAIN disp : disp[d].h = "hang" => HangDelivery(d, TRUE)

\* C3: a handler that never calls its continuation has its task failed
\* with TIMEOUT once the timeout$, or else the instance timeout, has
\* expired, unless the instance died first; the caller's continuation is
\* never called before that, and is then called exactly once with the
\* TIMEOUT error when no errhandler returns truthy and the message has no
\* fatal$.
C3_TimeoutOnce ==
  /\ [](\A d \in DOMAIN disp :
          disp[d].h = "hang" =>
            HangDelivery(d, errh # "truthy" /\ ~disp[d].fatal))
  /\ []<>(dead \/ \A d \in DOMAIN disp :
                    disp[d].h = "hang" => disp[d].timedout)

\* C3 happens: two calls whose handlers never answered, one with a
\* timeout$ and one without, each got the TIMEOUT error once.
C3_Witness ==
  \E d, e \in DOMAIN disp :
    /\ disp[d].tmo # 0 /\ disp[e].tmo = 0
    /\ \A x \in {d, e} :
         /\ disp[x].h = "hang"
         /\ disp[x].timedout
         /\ Len(disp[x].cbs) = 1
         /\ disp[x].cbs[1].err.orig = "[TIMEOUT]"

\* The action C8 selects for msg among the first n actions added: the
\* matching pattern with the most keys, the latest added among equals.
MostSpecific(n, msg) ==
  LET c == { i \in 1..n : acts[i].pattern \subseteq msg }
  IN  IF c = {} THEN 0
      ELSE CHOOSE i \in c : \A o \in c :
             \/ Cardinality(acts[o].pattern) < Cardinality(acts[i].pattern)
             \/ /\ Cardinality(acts[o].pattern) = Cardinality(acts[i].pattern)
                /\ o <= i

\* C8: find and act select, for every message, the action whose pattern
\* has the most keys among the registered patterns contained in the
\* message, and the most recently added one among those with as many
\* keys.
C8_MostSpecificLatest ==
  /\ \A m \in Msgs : RouterFind(router, m) = MostSpecific(Len(acts), m)
  /\ \A d \in DOMAIN disp :
       (disp[d].given = 0 /\ disp[d].gst \notin {"queued", "cached"}) =>
         disp[d].actmeta = MostSpecific(disp[d].nacts, disp[d].msg)

\* C8 happens: a handler ran for a message that two different patterns
\* with the same number of keys match, and it is the later one's.
C8_Witness ==
  \E d \in DOMAIN disp :
    /\ disp[d].hinv = 1
    /\ \E i \in 1..disp[d].nacts :
         /\ i < disp[d].actmeta
         /\ acts[i].pattern \subseteq disp[d].msg
         /\ acts[i].pattern # acts[disp[d].actmeta].pattern
         /\ Cardinality(acts[i].pattern)
              = Cardinality(acts[disp[d].actmeta].pattern)

\* The number of prior hops between call d and the call act was given.
RECURSIVE Hops(_)
Hops(d) == IF disp[d].parent = 0 THEN 0 ELSE 1 + Hops(disp[d].parent)

\* The action that action b overrode: the latest one added before b on
\* the identical pattern (0: none).
Overridden(b) ==
  LET c == { i \in 1..(b - 1) : acts[i].pattern = acts[b].pattern }
  IN  IF c = {} THEN 0 ELSE CHOOSE i \in c : \A o \in c : o <= i

\* C9: a call made by this.prior in the handler of B is given the action
\* B overrode, runs that action's handler, and its meta$.chain is the
\* chain of B's call with B's id appended: n hops down, the chain has n
\* ids.
C9_PriorDirectChain ==
  \A d \in DOMAIN disp :
    LET p == disp[d].parent
    IN  p # 0 =>
          /\ disp[d].given # 0
          /\ disp[d].given = Overridden(disp[p].actmeta)
          /\ disp[d].hinv = 1 =>
               /\ disp[d].actmeta = disp[d].given
               /\ disp[d].meta.action = disp[d].given
               /\ disp[d].meta.chain
                    = Append(disp[p].meta.chain, disp[p].actmeta)
               /\ Len(disp[d].meta.chain) = Hops(d)

\* C9 happens: the handler at the second prior hop has run.
C9_Witness ==
  \E d \in DOMAIN disp : Hops(d) = 2 /\ disp[d].hinv = 1

\* The call made by this.prior in the handler of call p.
PriorOf(p) == CHOOSE c \in DOMAIN disp : disp[c].parent = p

\* Which of call p's continuation calls the i-th entry of log is.
CbIndex(log, i, p) ==
  Cardinality({ j \in 1..i : log[j] = <<"cb", p>> })

\* In the log of call p's root, every act-out of p comes after an
\* act-out of p's prior call, and every call of p's continuation comes
\* after the prior call's act-out or act-err, or is one that own(k)
\* admits, k being its number.
PriorFirst(p, own(_)) ==
  LET log == disp[disp[p].root].log
      c == PriorOf(p)
  IN  \A i \in DOMAIN log :
        /\ log[i] = <<"act-out", p>> =>
             \E j \in 1..(i - 1) : log[j] = <<"act-out", c>>
        /\ log[i] = <<"cb", p>> =>
             \/ \E j \in 1..(i - 1) :
                  log[j] \in {<<"act-out", c>>, <<"act-err", c>>}
             \/ own(CbIndex(log, i, p))

\* C10 as stated: when a handler calls this.prior and its own
\* continuation from the prior's callback, the prior's act-out precedes
\* the outer act-out and the outer caller's continuation is called only
\* after the prior call has completed.
C10_AsStated ==
  \A p \in DOMAIN disp :
    disp[p].h = "prior" => PriorFirst(p, LAMBDA k : FALSE)

\* C10: the prior's act-out precedes the outer act-out, and the outer
\* caller's continuation is called only after the prior call has
\* completed, or with the TIMEOUT error of the outer call's own task when
\* that expires first.
C10_PriorBeforeOuter ==
  \A p \in DOMAIN disp :
    disp[p].h = "prior" =>
      PriorFirst(p, LAMBDA k : /\ disp[p].timedout
                               /\ disp[p].cbs[k].err.orig = "[TIMEOUT]")

\* C10 happens: a prior call was answered and the calling handler passed
\* the answer on: both act-out events and the outer continuation call are
\* in the log.
C10_Witness ==
  \E p \in DOMAIN disp :
    /\ disp[p].h = "prior"
    /\ LET log == disp[disp[p].root].log
       IN  \E i, j, k \in DOMAIN log :
             /\ i < j /\ j < k
             /\ log[i] = <<"act-out", PriorOf(p)>>
             /\ log[j] = <<"act-out", p>>
             /\ log[k] = <<"cb", p>>

\* The subscribers of the given phase whose registered pattern matches
\* the message of call d.
MatchingSubs(d, phase) ==
  { i \in DOMAIN subfuncs :
      subfuncs[i].phase = phase /\ subfuncs[i].pattern \subseteq disp[d].msg }

\* How many times subscriber i was called for call d in the given phase.
SubCount(d, phase, i) ==
  Cardinality({ k \in DOMAIN disp[d].subcalls :
                  disp[d].subcalls[k] = <<phase, i>> })

\* C11: a subscriber is invoked for a dispatch exactly when the
\* dispatch's meta$.entry is true: never for a dispatch made by
\* this.prior, and for every dispatch act made of a message matching its
\* pattern.
C11_SubIffEntry ==
  \A d \in DOMAIN disp :
    /\ disp[d].parent # 0 => disp[d].subcalls = <<>>
    /\ EvCount(d, {"act-in"}) = 1 =>
         \A i \in MatchingSubs(d, "in$") :
           SubCount(d, "in$", i) >= 1 <=> disp[d].meta.entry
    /\ (disp[d].parent = 0 /\ EvCount(d, {"act-in"}) = 1) =>
         \A i \in MatchingSubs(d, "in$") : SubCount(d, "in$", i) >= 1

\* C12: every subscriber whose pattern matches the message of an entry
\* dispatch is invoked once on its act-in, or once on its act-out when
\* registered with out$, also when the subscribers are under several
\* matching patterns of differing specificity.
C12_EveryMatchingSubOnce ==
  \A d \in DOMAIN disp :
    disp[d].meta.entry =>
      /\ EvCount(d, {"act-in"}) = 1 =>
           \A i \in MatchingSubs(d, "in$") : SubCount(d, "in$", i) = 1
      /\ EvCount(d, {"act-out"}) = 1 =>
           \A i \in MatchingSubs(d, "out$") : SubCount(d, "out$", i) = 1

\* The calls handle_sub owes call d in a phase: every subscriber of the
\* list the subrouter finds, in the list's order.
OwedSubCalls(d, phase) ==
  LET fns == SubFind(subrouter, disp[d].msg \cup {<<phase, "true">>})
  IN  [k \in DOMAIN fns |-> <<phase, fns[k]>>]

\* The calls of disp[d].subcalls made in a phase, in order.
SubCallsIn(d, phase) ==
  SelectSeq(disp[d].subcalls, LAMBDA c : c[1] = phase)

\* C13: a subscriber that throws is isolated: the handler is invoked all
\* the same, the other subscribers of the event run, and the caller's
\* continuation gets what the handler gave, never the subscriber's
\* exception.
C13_SubThrowIsolated ==
  \A d \in DOMAIN disp :
    disp[d].meta.entry =>
      /\ EvCount(d, {"act-in"}) = 1 =>
           /\ disp[d].hinv = 1
           /\ SubCallsIn(d, "in$") = OwedSubCalls(d, "in$")
      /\ EvCount(d, {"act-out"}) = 1 =>
           SubCallsIn(d, "out$") = OwedSubCalls(d, "out$")
      /\ \A k \in DOMAIN disp[d].cbs :
           /\ disp[d].cbs[k] = disp[d].adone[k]
           /\ disp[d].cbs[k].err.code # "sub_function_catch"
      /\ (disp[d].h = "replied" /\ EvCount(d, {"act-out"}) = 1) =>
           /\ Len(disp[d].cbs) = 1
           /\ disp[d].cbs[1].err = NoErr

\* C13 happens: on the act-in of a call a subscriber threw and the next
\* one ran, the handler replied and the continuation got its result.
C13_Witness ==
  \E d \in DOMAIN disp :
    /\ disp[d].h = "replied"
    /\ Len(disp[d].cbs) = 1 /\ disp[d].cbs[1].err = NoErr
    /\ \E k \in DOMAIN disp[d].subcalls :
         /\ k < Len(disp[d].subcalls)
         /\ disp[d].subcalls[k][1] = "in$"
         /\ subfuncs[disp[d].subcalls[k][2]].does = "throw"
         /\ disp[d].subcalls[k + 1][1] = "in$"

\* C14: a ready callback is never called while a task is queued or in
\* flight on the root gate, also when a ready listener or an earlier
\* ready callback gave messages to act in the same transition to idle.
C14_ReadyOnlyWhenClear ==
  \A r \in DOMAIN readies : ~readies[r].busy

\* C15: every ready callback is called in the end, and exactly once,
\* whether the gate was clear or busy when ready was called, when every
\* task completes.
C15_ReadyOnce ==
  /\ [](\A r \in DOMAIN readies : readies[r].calls <= 1)
  /\ []<>(\A r \in DOMAIN readies : readies[r].calls = 1)

\* C15 happens: one ready callback was called from the ready list, which
\* it joined because the gate was busy, and another straight from its
\* setImmediate.
C15_Witness ==
  \E r, t \in DOMAIN readies :
    /\ r # t
    /\ readies[r].calls = 1 /\ readies[t].calls = 1
    /\ readies[r].listed /\ ~readies[t].listed

\* The action execute_action resolves for call d.
Resolved(d) ==
  IF disp[d].given # 0 THEN disp[d].given ELSE RouterFind(router, disp[d].msg)

\* Call d was refused as a loop: act_loop went to its action_done and
\* its handler was never invoked.
Refused(d) ==
  /\ disp[d].hinv = 0
  /\ disp[d].adone # <<>>
  /\ disp[d].adone[1].err = SenecaError("act_loop")

\* How often the history$ of call d names the action resolved for it.
Repeats(d) ==
  LET h == disp[d].ctl.history
  IN  Cardinality({ i \in DOMAIN h : h[i] = [action |-> Resolved(d)] })

\* C16: a dispatch whose resolved action is A fails with act_loop and
\* its handler is not invoked when history$ has more than strict.maxloop
\* entries whose action is A; with strict.maxloop such entries or fewer
\* the handler is invoked and no act_loop is raised for the dispatch.
C16_ActLoopIff ==
  \A d \in DOMAIN disp :
    disp[d].gst \in {"inflight", "done"} =>
      IF Repeats(d) > strict.maxloop
      THEN Refused(d)
      ELSE disp[d].hinv = 1 /\ ~Refused(d)

\* C16 happens: one dispatch was refused with one entry more than the
\* limit, another one ran its handler with exactly the limit.
C16_Witness ==
  \E d, e \in DOMAIN disp :
    /\ disp[d].gst = "done" /\ disp[e].gst = "done"
    /\ Repeats(d) = strict.maxloop + 1 /\ Refused(d)
    /\ Repeats(e) = strict.maxloop /\ disp[e].hinv = 1

\* C17: when no pattern matches the message: a default$ that is a plain
\* object or array is what the continuation receives, with no error; a
\* default$ that is present and is neither makes the dispatch fail with
\* act_default_bad; with no default$ it fails with act_not_found, but
\* with strict.find off the continuation receives (null, {}).
C17_DefaultHandling ==
  \A d \in DOMAIN disp :
    (disp[d].gst = "done" /\ Resolved(d) = 0) =>
      LET dflt == disp[d].ctl.dflt
          want == CASE dflt = "obj" -> Tuple(NoErr, DefaultObj)
                    [] dflt \in {"truthy", "falsy"} ->
                         Tuple(SenecaError("act_default_bad"), NullRes)
                    [] OTHER ->
                         IF strict.find
                         THEN Tuple(SenecaError("act_not_found"), NullRes)
                         ELSE Tuple(NoErr, EmptyObj)
      IN  disp[d].cbs = <<want>>

\* What the handler of call d gave as its result.
Answer(d) ==
  CASE disp[d].ans = "num" -> NumRes
    [] disp[d].ans = "entity" -> EntityRes
    [] disp[d].ans = "force" -> ForceRes
    [] OTHER -> ObjRes(disp[d].actmeta)

\* Call d failed with result_not_objarr: act-err and no act-out, and the
\* continuation, when called, received the error.
FailedNotObjArr(d, called) ==
  /\ EvCount(d, {"act-err"}) = 1
  /\ EvCount(d, {"act-out"}) = 0
  /\ disp[d].fail
  /\ disp[d].cbs =
       IF called THEN <<Tuple(SenecaError("result_not_objarr"), Answer(d))>>
       ELSE <<>>

\* The result of call d was delivered unchanged as a success.
Delivered(d) ==
  /\ EvCount(d, {"act-err"}) = 0
  /\ EvCount(d, {"act-out"}) = 1
  /\ disp[d].cbs = <<Tuple(NoErr, Answer(d))>>

\* C18 as stated: with strict.result on, a success result that is not
\* null, no plain object, no array and no entity makes the dispatch fail
\* with result_not_objarr, the continuation receiving the error, unless
\* cmd is a legacy name; else the result is delivered as a success.
C18_AsStated ==
  \A d \in DOMAIN disp :
    disp[d].ans \in {"ok"} \cup OddReplies =>
      IF /\ strict.result
         /\ disp[d].ans \in {"num", "force"}
         /\ <<"cmd", "native">> \notin disp[d].msg
      THEN FailedNotObjArr(d, TRUE)
      ELSE Delivered(d)

\* C18: with strict.result on, a success result that is not null, no
\* plain object, no array, no entity and has no force$ makes the dispatch
\* fail with result_not_objarr unless cmd is a legacy name or note is
\* true: act-err is emitted, act-out is not, and the continuation
\* receives the error unless the message has fatal$ or the errhandler
\* returns a truthy value; in every other case the result is delivered
\* unchanged as a success.
C18_ResultNotObjArr ==
  \A d \in DOMAIN disp :
    disp[d].ans \in {"ok"} \cup OddReplies =>
      IF /\ strict.result
         /\ disp[d].ans = "num"
         /\ <<"cmd", "native">> \notin disp[d].msg
         /\ <<"note", "true">> \notin disp[d].msg
      THEN FailedNotObjArr(d, ~disp[d].fatal /\ errh # "truthy")
      ELSE Delivered(d)

\* C18 happens: a number failed one dispatch, whose continuation got the
\* error, and was delivered by another whose cmd is a legacy name.
C18_Witness ==
  \E d, e \in DOMAIN disp :
    /\ strict.result
    /\ disp[d].ans = "num" /\ disp[d].msg = PatA
    /\ disp[d].cbs = <<Tuple(SenecaError("result_not_objarr"), NumRes)>>
    /\ disp[e].ans = "num" /\ <<"cmd", "native">> \in disp[e].msg
    /\ disp[e].cbs = <<Tuple(NoErr, NumRes)>>

\* C19: add with a pattern that has no attribute left once the reserved
\* ones are stripped fails with add_empty_pattern and installs nothing:
\* no action with the empty pattern is ever registered or routed.
C19_EmptyPatternRefused ==
  /\ \A a \in DOMAIN acts : acts[a].pattern # {}
  /\ {} \notin DOMAIN router

\* Call d was given to act after a close had marked its instance closed:
\* do_close gives the close message to act right after the mark.
AfterClose(d) == \E c \in 1..(d - 1) : disp[c].ctl.closing

\* C20: once close, called on the root or on a delegate, has waited for
\* readiness and marked the instance closed, every act whose message
\* matches a pattern and has no closing$ fails with instance-closed and
\* its handler is not invoked.
C20_ClosedRefuses ==
  \A d \in DOMAIN disp :
    (/\ AfterClose(d)
     /\ ~disp[d].ctl.closing
     /\ Resolved(d) # 0
     /\ disp[d].gst \in {"inflight", "done"}) =>
      /\ disp[d].hinv = 0
      /\ disp[d].cbs = <<Tuple(SenecaError("instance-closed"), NullRes)>>

\* The task of call d has begun: the gate has called execspec.fn.
Begun(d) == disp[d].gst \in {"inflight", "done"}

\* C21: of two dispatches submitted to the same gate, the one submitted
\* first begins first: whenever the later one has begun (its act-in
\* emitted, its handler called), the earlier one has begun too.
C21_SubmissionOrder ==
  \A d, e \in DOMAIN disp :
    (/\ d < e
     /\ disp[d].gst # "cached" /\ disp[e].gst # "cached"
     /\ GateOf(disp, d) = GateOf(disp, e)
     /\ Begun(e)) =>
      /\ Begun(d)
      /\ EvCount(e, {"act-in"}) = 1 => EvCount(d, {"act-in"}) = 1

\* C21 happens: two acts and a prior call were submitted in that order
\* and all three have emitted act-in and called their handlers.
C21_Witness ==
  \E d, e, f \in DOMAIN disp :
    /\ d < e /\ e < f
    /\ disp[d].parent = 0 /\ disp[e].parent = 0 /\ disp[f].parent = d
    /\ \A x \in {d, e, f} :
         Begun(x) /\ EvCount(x, {"act-in"}) = 1 /\ disp[x].hinv = 1

\* C22: when the caller's message and the fixedargs of the instance act
\* is called on have a key in common, the handler receives the fixedargs
\* value with strict.fixedargs on and the caller's value with it off.
C22_FixedargsDirection ==
  \A d \in DOMAIN disp :
    (disp[d].parent = 0 /\ disp[d].hinv = 1) =>
      \A c \in disp[d].caller, f \in disp[d].fixed :
        c[1] = f[1] =>
          IF strict.fixedargs THEN f \in disp[d].hmsg /\ c \notin disp[d].hmsg
          ELSE c \in disp[d].hmsg /\ f \notin disp[d].hmsg

\* A step that changes the registry wraps some pin: every registered
\* pattern that has the pin's attributes gets a new action whose prior
\* is the action the pattern had, and every other pattern keeps its
\* action.
WrapStep ==
  acts' # acts =>
    /\ DOMAIN router' = DOMAIN router
    /\ \E pin \in WrapPins :
         \A p \in DOMAIN router :
           IF \A kv \in pin : kv \in p
           THEN /\ router'[p] > Len(acts)
                /\ acts'[router'[p]].pattern = p
                /\ acts'[router'[p]].priormeta = router[p]
           ELSE router'[p] = router[p]

\* An act on a registered pattern runs the action last added on it (the
\* wrapper once it is wrapped), and this.prior in a wrapper runs the
\* action the pattern had before.
WrapDispatch ==
  \A d \in DOMAIN disp :
    disp[d].hinv = 1 =>
      IF disp[d].parent = 0
      THEN disp[d].msg \in DOMAIN router =>
             LET c == { i \in 1..disp[d].nacts :
                          acts[i].pattern = disp[d].msg }
             IN  disp[d].actmeta = CHOOSE i \in c : \A o \in c : o <= i
      ELSE disp[disp[d].parent].actmeta > Len(WrapBase.acts) =>
             disp[d].actmeta = Overridden(disp[disp[d].parent].actmeta)

C24_InBeforeOutOrErr ==
  \A d \in DOMAIN disp :
    LET log == disp[disp[d].root].log
    IN  \A i \in DOMAIN log :
          log[i] \in {<<"act-out", d>>, <<"act-err", d>>} =>
            \E j \in 1..(i - 1) : log[j] = <<"act-in", d>>

\* C25 as stated: an installed errhandler is called for every dispatch
\* that fails, also when the message has fatal$.
C25_AsStated ==
  \A d \in DOMAIN disp :
    (errh # "none" /\ disp[d].fail) => disp[d].eh >= 1

\* C25: an installed errhandler is called for every dispatch that fails
\* and whose message has no fatal$, whatever the failure (no action, an
\* error or a bad result from the handler, a timeout); with fatal$ the
\* errhandler is not called and the instance dies.
C25_ErrhandlerUnlessFatal ==
  \A d \in DOMAIN disp :
    (errh # "none" /\ disp[d].fail) =>
      IF disp[d].fatal THEN disp[d].eh = 0 /\ dead
      ELSE disp[d].eh >= 1

\* C25 happens: with an errhandler installed, a dispatch with no action
\* and one whose handler gave an error both failed and the errhandler
\* was called for each.
C25_Witness ==
  \E d, e \in DOMAIN disp :
    /\ errh # "none"
    /\ disp[d].msg = MsgC /\ disp[d].fail /\ disp[d].eh = 1
    /\ disp[e].ans = "err" /\ disp[e].fail /\ disp[e].eh = 1

\* How often the task of call d told its gate that it is done: the
\* function execspec.fn gives to execute_action, and its catch clause,
\* call done() after each act_done; ontm calls act_done alone.
Dones(d) ==
  Len(disp[d].adone) - (IF disp[d].timedout THEN 1 ELSE 0)

\* The dispatch of call d, which was given to a gate, has its outcome.
Settled(d) ==
  /\ disp[d].gst # "cached"
  /\ disp[d].fail \/ disp[d].adone # <<>>

\* C26: every task act adds to a gate tells the gate that it is done,
\* exactly once, on every outcome, fatal$ and not-found included; no
\* task is left in flight by the dispatcher.
C26_DoneOnce ==
  \A d \in DOMAIN disp :
    (Settled(d) /\ ~disp[d].timedout) =>
      Dones(d) = 1 /\ disp[d].gst = "done"

\* C27: when the caller's continuation throws, what it threw is wrapped
\* as an act_callback error and an act-err is emitted, the continuation
\* is not called again for that dispatch, and the task of the dispatch
\* is done on its gate.
C27_CallbackThrowsOnce ==
  \A d \in DOMAIN disp :
    (disp[d].cb = "throw" /\ disp[d].cbs # <<>>) =>
      /\ Len(disp[d].cbs) = 1
      /\ disp[d].cberrs
           = <<WrapError(PlainError("cbthrown"), "act_callback")>>
      /\ EvCount(d, {"act-err"}) >= 1
      /\ disp[d].gst = "done"

\* The close dispatches whose continuation, and with it done, has been
\* called.
CloseDones ==
  Cardinality({d \in DOMAIN disp : disp[d].ctl.closing /\ disp[d].cbs # <<>>})

\* The safety part of C28: do_close runs with the gate idle, the
\* instance is marked closed when the close message is dispatched, that
\* dispatch reaches its action and is not refused as instance-closed,
\* and done is called at most once.
CloseSafe ==
  /\ \A r \in DOMAIN readies : ~readies[r].busy
  /\ \A d \in DOMAIN disp :
       disp[d].ctl.closing =>
         /\ closed.root \/ closed.delegate
         /\ Len(disp[d].cbs) <= 1
         /\ disp[d].gst = "done" =>
              /\ disp[d].hinv = 1
              /\ disp[d].cbs = <<Tuple(NoErr, NullRes)>>

\* C28: close(done) marks the instance closed only once the root gate is
\* idle and before the close message is dispatched, that dispatch is
\* not refused as instance-closed, and done is called in the end,
\* exactly once, for every close.
C28_CloseWhenIdle ==
  /\ []CloseSafe
  /\ \A n \in 1..MaxReady : (Len(readies) >= n) ~> (CloseDones >= n)

\* Gate g is gate h or a sub-gate descended from it; a sub-gate is named
\* by the call that made it and pge of that call is its parent gate.
RECURSIVE Under(_, _)
Under(g, h) == g = h \/ (g # 0 /\ Under(disp[g].pge, h))

\* Call d was made by the handler of call a through its delegate, or by
\* a handler whose call was.
RECURSIVE Within(_, _)
Within(d, a) ==
  /\ disp[d].parent # 0
  /\ disp[d].parent = a \/ Within(disp[d].parent, a)

\* The gate of the instance call d was made on: the root's, or the one
\* the task of the calling handler was added to.
InvokerGate(d) == IF disp[d].parent = 0 THEN 0 ELSE disp[disp[d].parent].ge

\* C29: a dispatch with gate$ is enqueued on a fresh sub-gate of the
\* gate of the instance it was made on; every act and this.prior its
\* handler makes through its delegate is enqueued on that sub-gate or on
\* one descended from it, never on the root gate; a dispatch without
\* gate$ is enqueued on the gate of the instance it was made on.
C29_SubGates ==
  \A d \in DOMAIN disp :
    disp[d].gst # "cached" =>
      /\ disp[d].ctl.gate =>
           /\ disp[d].ge \notin {0, InvokerGate(d)}
           /\ disp[d].pge = InvokerGate(d)
           /\ \A e \in DOMAIN disp : disp[e].ge = disp[d].ge => e >= d
      /\ ~disp[d].ctl.gate => disp[d].ge = InvokerGate(d)
      /\ \A a \in DOMAIN disp :
           (disp[a].ctl.gate /\ Within(d, a)) =>
             disp[d].ge # 0 /\ Under(disp[d].ge, disp[a].ge)

\* C29 happens: a dispatch with gate$ on the root has begun, its handler
\* has called this.act with gate$, and the handler of that call has
\* called this.prior; the three tasks are on two sub-gates, one inside
\* the other, and a dispatch without gate$ is on the root gate.
C29_Witness ==
  \E d, e, f \in DOMAIN disp :
    /\ disp[d].parent = 0 /\ disp[d].ctl.gate /\ disp[d].h = "gate"
    /\ disp[e].parent = d /\ disp[e].ctl.gate /\ disp[e].h = "prior"
    /\ disp[f].parent = e /\ ~disp[f].ctx.entry /\ Begun(f)
    /\ disp[e].ge = e /\ disp[e].pge = d /\ disp[f].ge = e

\* Call d was made by this.prior, or by this.act with a message whose
\* id$ has no tx part.
KeepsTx(d) ==
  /\ disp[d].parent # 0
  /\ ~disp[d].ctx.entry \/ Len(disp[d].rawid) < 2

\* C30: a dispatch made by this.prior, or by this.act on a handler's
\* delegate with an id$ that has no tx part, has in meta$.tx the tx of
\* the dispatch whose handler made it, and so, at any depth, of the
\* outermost one.
C30_SameTx ==
  \A d \in DOMAIN disp :
    (KeepsTx(d) /\ disp[d].statd) =>
      /\ disp[d].meta.tx = disp[disp[d].parent].meta.tx
      /\ (\A a \in DOMAIN disp : Within(d, a) /\ a # disp[d].root => KeepsTx(a))
           => disp[d].meta.tx = disp[disp[d].root].meta.tx

\* C30 happens: a handler has called this.act with an id$ without a tx
\* part, the handler of that call has called this.prior, and the three
\* dispatches have built their meta$.
C30_Witness ==
  \E d, e, f \in DOMAIN disp :
    /\ disp[d].parent = 0 /\ disp[d].h = "actid"
    /\ disp[e].parent = d /\ Len(disp[e].rawid) = 1 /\ disp[e].h = "prior"
    /\ disp[f].parent = e /\ ~disp[f].ctx.entry
    /\ disp[d].statd /\ disp[e].statd /\ disp[f].statd
    /\ disp[f].meta.tx = IdGen(d)

\* The dispatch whose handler replied at the end of the calls the handler
\* of d made through this.prior or this.act (d itself when its handler
\* replied); 0 while no handler has.
RECURSIVE Source(_)
Source(d) ==
  IF disp[d].ans # "none" THEN d
  ELSE LET cs == {c \in DOMAIN disp : disp[c].parent = d}
       IN  IF cs = {} THEN 0 ELSE Source(CHOOSE c \in cs : TRUE)

\* The number of dispatches from d down to Source(d).
RECURSIVE Levels(_)
Levels(d) ==
  IF disp[d].ans # "none" THEN 1
  ELSE LET cs == {c \in DOMAIN disp : disp[c].parent = d}
       IN  IF cs = {} THEN 1 ELSE 1 + Levels(CHOOSE c \in cs : TRUE)

\* The handler's error of kind r, wrapped once.
WrappedOnce(r) ==
  IF r = "perm"
  THEN [seneca |-> TRUE, code |-> "act_execute", orig |-> "denied",
        ocode |-> "perm/x", wraps |-> 1]
  ELSE [seneca |-> TRUE, code |-> "act_execute", orig |-> "boom",
        ocode |-> "", wraps |-> 1]

\* Every dispatch the error of a handler that replied with one of kinds
\* has passed through delivers that error wrapped once.
DeliversWrappedOnce(kinds) ==
  \A d \in DOMAIN disp :
    (/\ disp[d].cbs # <<>>
     /\ Source(d) # 0
     /\ disp[Source(d)].ans \in kinds) =>
      disp[d].cbs = <<Tuple(WrappedOnce(disp[Source(d)].ans), NullRes)>>

\* C31 as stated: any error a handler produces is wrapped as act_execute
\* once, and every outer dispatch it is passed up through delivers that
\* wrapped error, with the handler's error as orig.
C31_AsStated == DeliversWrappedOnce({"err", "perm"})

\* C31 amended: an error a handler produces whose code does not begin
\* with perm/ is wrapped as act_execute once, and every outer dispatch it
\* is passed up through delivers that wrapped error, with the handler's
\* error as orig.
C31_WrappedOnce == DeliversWrappedOnce({"err"})

\* C31 happens: a handler's error has passed up through a nested act and
\* a prior hop and the outermost dispatch has delivered it.
C31_Witness ==
  \E d \in DOMAIN disp :
    /\ disp[d].parent = 0 /\ disp[d].cbs # <<>> /\ Levels(d) = 3
    /\ Source(d) # 0 /\ disp[Source(d)].ans = "err"
    /\ \E e \in DOMAIN disp : disp[e].h = "prior"
    /\ \E e \in DOMAIN disp : disp[e].h = "act"

\* Call d is made in this step and the action cache serves it.
ServedNow(d) ==
  /\ d \notin DOMAIN disp
  /\ d \in DOMAIN disp'
  /\ disp'[d].gst = "cached"

\* A dispatch the cache serves has no event, no task, no handler call and
\* no share in the calls, done and fails counters.
ServedQuietly ==
  \A d \in DOMAIN disp :
    disp[d].gst = "cached" =>
      /\ EvCount(d, {"act-in", "act-out", "act-err"}) = 0
      /\ \A i \in DOMAIN q : q[i] # d
      /\ disp[d].hinv = 0
      /\ ~disp[d].statd /\ ~disp[d].fail /\ disp[d].adone = <<>>
      /\ Len(disp[d].cbs) <= 1

\* The step in which the cache serves a call leaves the three counters
\* alone and does not call the continuation, which waits for its
\* setImmediate.
ServedStep ==
  \A d \in 1..MaxDisp :
    ServedNow(d) =>
      /\ stats'.calls = stats.calls
      /\ stats'.done = stats.done
      /\ stats'.fails = stats.fails
      /\ disp'[d].cbs = <<>>
      /\ \E i \in DOMAIN immq' : immq'[i].d = d

\* C32: a dispatch served from the action cache emits no act-in, act-out
\* or act-err, enqueues no task, invokes no handler and leaves calls,
\* done and fails unchanged; its continuation is called after act has
\* returned, never inside it.
C32_CacheServed == []ServedQuietly /\ [][ServedStep]_vars

\* C32 happens: the cache has served a dispatch and its continuation has
\* been called with the tuple of the first one.
C32_Witness ==
  \E d \in DOMAIN disp :
    /\ disp[d].gst = "cached"
    /\ disp[d].cbs # <<>>
    /\ stats.cache >= 1
    /\ \E e \in 1..(d - 1) : disp[e].adone # <<>> /\ disp[d].cbs = disp[e].adone

\* The validate function of the action of dispatch d has rejected its
\* message: the dispatch has failed with the code and its handler was not
\* called.
RejectedWith(d, code) ==
  /\ disp[d].hinv = 0
  /\ disp[d].fail
  /\ disp[d].cbs = <<Tuple(SenecaError(code), NullRes)>>

\* C33 as stated: a dispatch whose message the validate function of its
\* action rejects fails with act_invalid_msg and its handler is not
\* invoked.
C33_AsStated ==
  \A d \in DOMAIN disp :
    disp[d].h = "invalid" => RejectedWith(d, "act_invalid_msg")

\* C33 amended: a dispatch whose message the validate function of its
\* action rejects fails with act_invalid_args when legacy.error_codes is
\* on (the default) and with act_invalid_msg when it is off, and its
\* handler is not invoked.
C33_InvalidFails ==
  \A d \in DOMAIN disp :
    disp[d].h = "invalid" =>
      IF strict.error_codes THEN RejectedWith(d, "act_invalid_args")
      ELSE RejectedWith(d, "act_invalid_msg")

\* C33 happens: with the default legacy.error_codes a message given to
\* act and one given to this.prior have been rejected.
C33_Witness ==
  /\ strict.error_codes
  /\ \E d, e \in DOMAIN disp :
       /\ disp[d].h = "invalid" /\ disp[d].parent = 0
       /\ disp[e].h = "invalid" /\ disp[e].parent # 0

\* C34: for every dispatch that has not completed, the entry flag of its
\* call context, and meta$.entry once it is built, is true iff the depth
\* of the context is 1, iff the dispatch was made by act and not by
\* this.prior (which gives the action to dispatch to), whatever has
\* happened to the enclosing dispatch before.
C34_EntryIffDepthOne ==
  \A d \in DOMAIN disp :
    disp[d].adone = <<>> =>
      /\ disp[d].ctx.entry <=> disp[d].ctx.depth = 1
      /\ disp[d].ctx.entry <=> disp[d].given = 0
      /\ disp[d].statd => (disp[d].meta.entry <=> disp[d].ctx.depth = 1)

\* C35: a subscriber is invoked only for dispatches whose message has
\* every (key, value) pair of the pattern it was registered with, in
\* whatever order subscriptions with overlapping patterns were made.
C35_SubOnlyOnMatch ==
  \A d \in DOMAIN disp :
    \A i \in DOMAIN disp[d].subcalls :
      subfuncs[disp[d].subcalls[i][2]].pattern \subseteq disp[d].msg

\* The increments dispatch d has made to done or fails: one for every
\* run of act_done with an error, and one for every run without when the
\* call was counted.
Booked(d) ==
  Cardinality({ i \in DOMAIN disp[d].adone :
                  disp[d].adone[i].err # NoErr \/ disp[d].statd })

\* C36: after any dispatches, not-found, timed-out and late-completing
\* ones among them, done + fails <= calls, and every dispatch has made
\* at most one increment to done or fails (to calls it makes at most the
\* one of execute_action).
C36_CountersBounded ==
  /\ stats.done + stats.fails <= stats.calls
  /\ \A d \in DOMAIN disp : Booked(d) <= 1

\* The nested calls the handler of d has made.
Nested(d) == {c \in DOMAIN disp : disp[c].parent = d}

====
